---- MODULE Spec2Model ----
(***************************************************************************)
(* Transactional e-mail engine of express-boilerplate.                     *)
(*                                                                         *)
(*   EmailSMTPService  (src/src/mailer/config.ts)   the Dispatcher         *)
(*   emailMessageSchema (src/unnamed/part_000)      message validation     *)
(*   EmailService      (src/unnamed/part_001)       SMTP validation        *)
(*   ServiceResponse   (src/src/utils/serviceApi.ts) error normalisation   *)
(*                                                                         *)
(* Every JavaScript string that the code inspects (template sources, cache *)
(* keys, bodies, message ids) is a tuple of byte values; strings the code  *)
(* only compares or copies (addresses, subjects, error texts) are TLA+     *)
(* strings.  An optional value is <<>> (undefined) or <<v>>; an optional   *)
(* field of an object is a field that is absent from the record's DOMAIN.  *)
(***************************************************************************)
EXTENDS Integers, Sequences, FiniteSets, TLC

VARIABLES
    templateCache,  \* EmailSMTPService.templateCache: cache key -> compiled template
    defaultFrom,    \* EmailSMTPService.defaultFrom
    call,           \* the sendEmail / sendBulkEmails call in flight and its promises
    smtp,           \* the validateSmtpConnection call in flight and its outcome
    env,            \* process.env: the SMTP settings of the environment
    bridge,         \* the sendEmailWithTemplate / sendEmailWithDirectTemplate call in flight
    helpers,        \* the helper registry of Handlebars (one per process)
    instances,      \* the further EmailSMTPService instances of the process
    log,            \* the registrations made into the helper registry, in order
    last,           \* the last operation on a further instance, and what it did
    emailTable,     \* the rows of the email table, in the order of their ids
    request,        \* the EmailController call in flight and its outcome
    seeding         \* the EmailSeeder run in flight, and the runs so far

vars ==
    <<templateCache, defaultFrom, call, smtp, env, bridge, helpers, instances, log, last,
      emailTable, request, seeding>>

bridgeVars == <<env, bridge>>
lifecycleVars == <<helpers, instances, log, last>>
storeVars == <<emailTable, request, seeding>>

(***************************************************************************)
(* Bounds of the model.                                                    *)
(***************************************************************************)
MaxBulk == 2

(***************************************************************************)
(* Values: optionals, completions (return / throw), errors.                *)
(***************************************************************************)
None == <<>>
Some(v) == <<v>>

Ok(v) == [ok |-> TRUE, value |-> v]
Throw(e) == [ok |-> FALSE, error |-> e]

\* new Error(message); message is a tuple of text fragments (concatenation).
Error(msg) == [kind |-> "Error", message |-> msg]
\* A ZodError is an Error whose message lists the issues.
ZodError(issues) == [kind |-> "ZodError", message |-> issues]
\* A thrown value that is not an Error instance (a transport plugin calling back
\* with a string).
NonError(v) == [kind |-> "String", message |-> v]

\* class HttpError extends Error: expose defaults to 400 <= status < 500.
HttpErrorDefaultExpose(status) == status >= 400 /\ status < 500

HttpError(status, message, expose, cause) ==
    [kind |-> "HttpError", name |-> "HttpError", status |-> status,
     message |-> message, expose |-> expose, cause |-> cause]

\* error instanceof Error
InstanceOfError(e) == e.kind \in {"Error", "ZodError", "HttpError"}

\* error instanceof HttpError
InstanceOfHttpError(e) == e.kind = "HttpError"

\* isApiErrorShape: an object with number status, string message, boolean success.
IsApiErrorShape(e) == e.kind = "ApiErrorShape"

(***************************************************************************)
(* Buffer.from(s).toString("base64"): RFC 4648 over the bytes of s.        *)
(***************************************************************************)
B64Char(n) ==
    IF n < 26 THEN 65 + n
    ELSE IF n < 52 THEN 97 + (n - 26)
    ELSE IF n < 62 THEN 48 + (n - 52)
    ELSE IF n = 62 THEN 43
    ELSE 47

B64Pad == 61

RECURSIVE Base64(_)
Base64(bytes) ==
    IF Len(bytes) = 0 THEN <<>>
    ELSE IF Len(bytes) = 1 THEN
        <<B64Char(bytes[1] \div 4), B64Char((bytes[1] % 4) * 16), B64Pad, B64Pad>>
    ELSE IF Len(bytes) = 2 THEN
        <<B64Char(bytes[1] \div 4),
          B64Char((bytes[1] % 4) * 16 + bytes[2] \div 16),
          B64Char((bytes[2] % 16) * 4), B64Pad>>
    ELSE
        <<B64Char(bytes[1] \div 4),
          B64Char((bytes[1] % 4) * 16 + bytes[2] \div 16),
          B64Char((bytes[2] % 16) * 4 + bytes[3] \div 64),
          B64Char(bytes[3] % 64)>>
        \o Base64(SubSeq(bytes, 4, Len(bytes)))

\* String.prototype.substring(0, n)
Substring0(s, n) == SubSeq(s, 1, IF Len(s) < n THEN Len(s) ELSE n)

CacheKeyLen == 32

\* "template_" as bytes
TemplatePrefix == <<116, 101, 109, 112, 108, 97, 116, 101, 95>>

\* `template_${Buffer.from(templateHtml).toString("base64").substring(0, 32)}`
DeriveCacheKey(templateHtml) ==
    TemplatePrefix \o Substring0(Base64(templateHtml), CacheKeyLen)

(***************************************************************************)
(* Handlebars, as far as the Dispatcher uses it: compile is lazy (the      *)
(* source is parsed when the compiled template is first invoked), a        *)
(* mustache {{key}} is replaced by data[key] or by nothing.                *)
(***************************************************************************)
OpenBrace == 123
CloseBrace == 125

\* Index of the first "}}" at or after i, 0 when there is none.
RECURSIVE FindClose(_, _)
FindClose(src, i) ==
    IF i + 1 > Len(src) THEN 0
    ELSE IF src[i] = CloseBrace /\ src[i + 1] = CloseBrace THEN i
    ELSE FindClose(src, i + 1)

IsIdByte(b) == (b >= 97 /\ b <= 122) \/ (b >= 65 /\ b <= 90)

\* The parser: every "{{" is followed by an identifier and "}}".
RECURSIVE ParsesFrom(_, _)
ParsesFrom(src, i) ==
    IF i > Len(src) THEN TRUE
    ELSE IF i + 1 <= Len(src) /\ src[i] = OpenBrace /\ src[i + 1] = OpenBrace THEN
        LET j == FindClose(src, i + 2) IN
            /\ j > i + 2
            /\ \A k \in (i + 2)..(j - 1) : IsIdByte(src[k])
            /\ ParsesFrom(src, j + 2)
    ELSE ParsesFrom(src, i + 1)

RECURSIVE RenderFrom(_, _, _)
RenderFrom(src, i, data) ==
    IF i > Len(src) THEN <<>>
    ELSE IF i + 1 <= Len(src) /\ src[i] = OpenBrace /\ src[i + 1] = OpenBrace THEN
        LET j == FindClose(src, i + 2)
            key == SubSeq(src, i + 2, j - 1)
        IN (IF key \in DOMAIN data THEN data[key] ELSE <<>>) \o RenderFrom(src, j + 2, data)
    ELSE <<src[i]>> \o RenderFrom(src, i + 1, data)

\* Handlebars.compile(source): a closure over the source; never throws for a string.
HandlebarsCompile(templateHtml) == Ok([source |-> templateHtml])

\* template(data): what invoking a template compiled from source does.
HandlebarsRun(source, data) ==
    IF ParsesFrom(source, 1)
    THEN Ok(RenderFrom(source, 1, data))
    ELSE Throw(Error(<<"Parse error">>))

(***************************************************************************)
(* Inputs: template sources, template data, addresses, messages.           *)
(***************************************************************************)
\* "Hi {{n}}!"
TplShort == <<72, 105, 32, 123, 123, 110, 125, 125, 33>>
\* "<p>Dear customer, welcome {{n}}</p>"
TplLongA ==
    <<60, 112, 62, 68, 101, 97, 114, 32, 99, 117, 115, 116, 111, 109, 101, 114, 44, 32,
      119, 101, 108, 99, 111, 109, 101, 32, 123, 123, 110, 125, 125, 60, 47, 112, 62>>
\* "<p>Dear customer, welcome back {{n}}</p>": the first 24 bytes are TplLongA's
TplLongB ==
    <<60, 112, 62, 68, 101, 97, 114, 32, 99, 117, 115, 116, 111, 109, 101, 114, 44, 32,
      119, 101, 108, 99, 111, 109, 101, 32, 98, 97, 99, 107, 32, 123, 123, 110, 125, 125,
      60, 47, 112, 62>>
\* "Hi {{n": the mustache is never closed
TplBad == <<72, 105, 32, 123, 123, 110>>

\* {} and {n: "Al"}
EmptyData == <<>>
DataAl == (<<110>> :> <<65, 108>>)

\* "hi" and "<b>hi</b>"
TextHi == <<104, 105>>
HtmlHi == <<60, 98, 62, 104, 105, 60, 47, 98, 62>>

\* z.string().email(): the well-formed addresses among the addresses of the model.
WellFormedEmails == {"ann@x.io", "bob@x.io", "smtp-user@x.io"}
IsEmail(s) == s \in WellFormedEmails

BaseMsg == [to |-> <<"ann@x.io">>, subject |-> "Hello"]

With(m, field, v) == [f \in DOMAIN m \cup {field} |-> IF f = field THEN v ELSE m[f]]

\* The messages callers pass to sendEmail and sendBulkEmails.
Messages ==
    { BaseMsg,                                                   \* no body at all
      With(BaseMsg, "text", TextHi),
      With(With(With(BaseMsg, "html", HtmlHi), "name", "Shop"), "from", "bob@x.io"),
      With([to |-> <<"not-an-address">>, subject |-> "Hello"], "text", TextHi),
      With(BaseMsg, "templateHtml", TplShort),                   \* template, no data
      With(With(BaseMsg, "templateHtml", TplShort), "templateData", DataAl),
      With(With(BaseMsg, "templateHtml", TplLongA), "templateData", DataAl),
      With(With(BaseMsg, "templateHtml", TplLongB), "templateData", EmptyData),
      With(With(BaseMsg, "templateHtml", TplBad), "templateData", DataAl) }

\* The template sources and data of these messages, and what the code derives from
\* each of them (computed once).
Templates == {TplShort, TplLongA, TplLongB, TplBad}
TemplateDatas == {EmptyData, DataAl}
CacheKeyTable == [t \in Templates |-> DeriveCacheKey(t)]
RunTable == [t \in Templates |-> [d \in TemplateDatas |-> HandlebarsRun(t, d)]]

CacheKeyOf(templateHtml) == CacheKeyTable[templateHtml]

\* template(data): invoking a compiled template.
InvokeTemplate(template, data) == RunTable[template.source][data]

Has(m, field) == field \in DOMAIN m

\* An optional field read as an optional value.
Opt(m, field) == IF Has(m, field) THEN Some(m[field]) ELSE None

\* JavaScript truthiness of an optional string field (bytes, or a TLA+ string).
Truthy(m, field) == Has(m, field) /\ m[field] # <<>>
TruthyStr(m, field) == Has(m, field) /\ m[field] # ""

(***************************************************************************)
(* emailMessageSchema.parse                                                *)
(***************************************************************************)
IssueIf(cond, text) == IF cond THEN <<text>> ELSE <<>>

\* The issues of the object's fields.
FieldIssues(m) ==
    IssueIf(~Has(m, "to") \/ (Has(m, "to") /\ \E i \in DOMAIN m.to : ~IsEmail(m.to[i])),
            "To must match one of the allowed types")
    \o IssueIf(~Has(m, "subject") \/ (Has(m, "subject") /\ m.subject = ""), "Subject is too short")
    \o IssueIf(Has(m, "from") /\ ~IsEmail(m.from), "Email is invalid")
    \o IssueIf(Has(m, "cc") /\ \E i \in DOMAIN m.cc : ~IsEmail(m.cc[i]),
               "CC must match one of the allowed types")
    \o IssueIf(Has(m, "bcc") /\ \E i \in DOMAIN m.bcc : ~IsEmail(m.bcc[i]),
               "BCC must match one of the allowed types")

\* Mutant of RefineBody: the schema without its refinement.
RefineBodyMissing(m) == TRUE

\* .refine(data => data.text || data.html || data.templateHtml)
RefineBody(m) == Truthy(m, "text") \/ Truthy(m, "html") \/ Truthy(m, "templateHtml")

\* The refinement runs on an object whose fields are valid.
emailMessageSchema(m) ==
    IF FieldIssues(m) # <<>> THEN Throw(ZodError(FieldIssues(m)))
    ELSE IF ~RefineBody(m)
         THEN Throw(ZodError(<<"Either text, html, or templateHtml must be provided">>))
         ELSE Ok(m)

(***************************************************************************)
(* EmailSMTPService: compileTemplate, renderTemplate                       *)
(***************************************************************************)
EmptyCache == <<>>

\* Mutant of CacheSet: the entry is stored under the bare prefix "template_".
CacheSetUnderPrefix(cache, key, template) ==
    [k \in DOMAIN cache \cup {TemplatePrefix} |->
        IF k = TemplatePrefix THEN template ELSE cache[k]]

\* Map.prototype.set
CacheSet(cache, key, template) ==
    [k \in DOMAIN cache \cup {key} |-> IF k = key THEN template ELSE cache[k]]

\* Map.prototype.has
CacheHas(cache, key) == key \in DOMAIN cache

\* `cacheKey &&`: a cache key that is given and not the empty string.
KeyGiven(cacheKey) == cacheKey # None /\ cacheKey[1] # <<>>

\* Mutant of compileTemplate: the cache is not consulted, every call compiles and
\* stores.
compileTemplateNoLookup(templateHtml, cacheKey, cache) ==
    LET c == HandlebarsCompile(templateHtml) IN
    [result |-> Ok(c.value),
     cache |-> IF KeyGiven(cacheKey) THEN CacheSet(cache, cacheKey[1], c.value) ELSE cache,
     compiled |-> TRUE]

\* compileTemplate(templateHtml, cacheKey?) on a cache: what it returns or throws,
\* the cache it leaves, and whether Handlebars.compile ran.
compileTemplate(templateHtml, cacheKey, cache) ==
    IF KeyGiven(cacheKey) /\ CacheHas(cache, cacheKey[1])
    THEN [result |-> Ok(cache[cacheKey[1]]), cache |-> cache, compiled |-> FALSE]
    ELSE LET c == HandlebarsCompile(templateHtml) IN
         IF c.ok
         THEN [result |-> Ok(c.value),
               cache |-> IF KeyGiven(cacheKey) THEN CacheSet(cache, cacheKey[1], c.value)
                         ELSE cache,
               compiled |-> TRUE]
         ELSE [result |-> Throw(Error(<<"Failed to compile template: ">> \o
                                     (IF InstanceOfError(c.error) THEN c.error.message
                                      ELSE <<"Unknown error">>))),
               cache |-> cache, compiled |-> TRUE]

\* What one compileTemplate call did, kept with the send that made it.
CompileEvent(templateHtml, cacheKey, before, c) ==
    [templateHtml |-> templateHtml, cacheKey |-> cacheKey, before |-> before,
     after |-> c.cache, result |-> c.result, compiled |-> c.compiled]

\* renderTemplate(templateHtml, data, cacheKey?)
renderTemplate(templateHtml, data, cacheKey, cache) ==
    LET c == compileTemplate(templateHtml, cacheKey, cache)
        r == IF c.result.ok THEN InvokeTemplate(c.result.value, data) ELSE c.result
    IN [result |-> IF r.ok THEN r
                   ELSE Throw(Error(<<"Failed to render template: ">> \o
                                    (IF InstanceOfError(r.error) THEN r.error.message
                                     ELSE <<"Unknown error">>))),
        cache |-> c.cache,
        event |-> CompileEvent(templateHtml, cacheKey, cache, c)]

(***************************************************************************)
(* EmailSMTPService.sendEmail                                              *)
(***************************************************************************)
Pending == [state |-> "pending"]
Fulfilled(v) == [state |-> "fulfilled", value |-> v]
Rejected(e) == [state |-> "rejected", reason |-> e]

\* Mutant of FromHeader: without a display name the sender of the message is used.
FromHeaderPreferFrom(vm, dflt) ==
    IF TruthyStr(vm, "name")
    THEN <<vm.name, " <", IF TruthyStr(vm, "from") THEN vm.from ELSE dflt, ">">>
    ELSE IF TruthyStr(vm, "from") THEN <<vm.from>> ELSE <<dflt>>

\* The from header: `${name} <${from || defaultFrom}>`, or defaultFrom.
FromHeader(vm, dflt) ==
    IF TruthyStr(vm, "name")
    THEN <<vm.name, " <", IF TruthyStr(vm, "from") THEN vm.from ELSE dflt, ">">>
    ELSE <<dflt>>

\* Mutant of SendEmailCatch: no catch block, the exception rejects the promise.
SendEmailRethrow(error) == Rejected(error)

\* The catch block: the promise of sendEmail is fulfilled with a failure result.
SendEmailCatch(error) ==
    Fulfilled([success |-> FALSE,
               error |-> IF InstanceOfError(error) THEN error.message
                         ELSE <<"Unknown error occurred">>])

\* Mutant of SendEmailToAwait: the html of the message wins over its template.
SendEmailToAwaitKeepsHtml(message, cache, dflt) ==
    LET v == emailMessageSchema(message) IN
    IF ~v.ok
    THEN [promise |-> SendEmailCatch(v.error), mail |-> None, cache |-> cache,
          compile |-> None]
    ELSE
        LET vm == v.value
            useTemplate == Truthy(vm, "templateHtml")
            cacheKey == IF Has(vm, "templateData") THEN Some(CacheKeyOf(vm.templateHtml))
                        ELSE None
            r == renderTemplate(vm.templateHtml,
                                IF Has(vm, "templateData") THEN vm.templateData
                                ELSE EmptyData,
                                cacheKey, cache)
        IN
        IF useTemplate /\ ~r.result.ok
        THEN [promise |-> SendEmailCatch(r.result.error), mail |-> None,
              cache |-> r.cache, compile |-> Some(r.event)]
        ELSE
            [promise |-> Pending,
             mail |-> Some([from |-> FromHeader(vm, dflt),
                            to |-> vm.to,
                            subject |-> vm.subject,
                            text |-> Opt(vm, "text"),
                            html |-> IF useTemplate /\ ~Has(vm, "html")
                                     THEN Some(r.result.value)
                                     ELSE Opt(vm, "html"),
                            cc |-> Opt(vm, "cc"),
                            bcc |-> Opt(vm, "bcc"),
                            attachments |-> Opt(vm, "attachments")]),
             cache |-> IF useTemplate THEN r.cache ELSE cache,
             compile |-> IF useTemplate THEN Some(r.event) ELSE None]

\* Mutant of SendEmailToAwait: the cache key is derived whether or not the message
\* has templateData.
SendEmailToAwaitAlwaysKeyed(message, cache, dflt) ==
    LET v == emailMessageSchema(message) IN
    IF ~v.ok
    THEN [promise |-> SendEmailCatch(v.error), mail |-> None, cache |-> cache,
          compile |-> None]
    ELSE
        LET vm == v.value
            useTemplate == Truthy(vm, "templateHtml")
            cacheKey == Some(CacheKeyOf(vm.templateHtml))
            r == renderTemplate(vm.templateHtml,
                                IF Has(vm, "templateData") THEN vm.templateData
                                ELSE EmptyData,
                                cacheKey, cache)
        IN
        IF useTemplate /\ ~r.result.ok
        THEN [promise |-> SendEmailCatch(r.result.error), mail |-> None,
              cache |-> r.cache, compile |-> Some(r.event)]
        ELSE
            [promise |-> Pending,
             mail |-> Some([from |-> FromHeader(vm, dflt),
                            to |-> vm.to,
                            subject |-> vm.subject,
                            text |-> Opt(vm, "text"),
                            html |-> IF useTemplate THEN Some(r.result.value)
                                     ELSE Opt(vm, "html"),
                            cc |-> Opt(vm, "cc"),
                            bcc |-> Opt(vm, "bcc"),
                            attachments |-> Opt(vm, "attachments")]),
             cache |-> IF useTemplate THEN r.cache ELSE cache,
             compile |-> IF useTemplate THEN Some(r.event) ELSE None]

\* sendEmail from its first statement to `await this.transporter.sendMail(..)`:
\* either sendMail was called with mailOptions and the promise is pending, or an
\* exception reached the catch block.
SendEmailToAwait(message, cache, dflt) ==
    LET v == emailMessageSchema(message) IN
    IF ~v.ok
    THEN [promise |-> SendEmailCatch(v.error), mail |-> None, cache |-> cache,
          compile |-> None]
    ELSE
        LET vm == v.value
            useTemplate == Truthy(vm, "templateHtml")
            cacheKey == IF Has(vm, "templateData") THEN Some(CacheKeyOf(vm.templateHtml))
                        ELSE None
            r == renderTemplate(vm.templateHtml,
                                IF Has(vm, "templateData") THEN vm.templateData
                                ELSE EmptyData,
                                cacheKey, cache)
        IN
        IF useTemplate /\ ~r.result.ok
        THEN [promise |-> SendEmailCatch(r.result.error), mail |-> None,
              cache |-> r.cache, compile |-> Some(r.event)]
        ELSE
            [promise |-> Pending,
             mail |-> Some([from |-> FromHeader(vm, dflt),
                            to |-> vm.to,
                            subject |-> vm.subject,
                            text |-> Opt(vm, "text"),
                            html |-> IF useTemplate THEN Some(r.result.value)
                                     ELSE Opt(vm, "html"),
                            cc |-> Opt(vm, "cc"),
                            bcc |-> Opt(vm, "bcc"),
                            attachments |-> Opt(vm, "attachments")]),
             cache |-> IF useTemplate THEN r.cache ELSE cache,
             compile |-> IF useTemplate THEN Some(r.event) ELSE None]

\* Mutant of SendEmailAfterAwait: success is reported only with a message id.
SendEmailAfterAwaitNeedsId(outcome) ==
    IF outcome.ok
    THEN Fulfilled([success |-> outcome.value.messageId # None,
                    messageId |-> outcome.value.messageId])
    ELSE SendEmailCatch(outcome.error)

\* sendEmail after the await: the transport resolved with info, or rejected.
SendEmailAfterAwait(outcome) ==
    IF outcome.ok
    THEN Fulfilled([success |-> TRUE, messageId |-> outcome.value.messageId])
    ELSE SendEmailCatch(outcome.error)

(***************************************************************************)
(* The transport (nodemailer): what sendMail may answer to the k-th send   *)
(* of a call.                                                              *)
(***************************************************************************)
\* "<k>" as bytes
MessageIdOf(k) == <<60, 48 + k, 62>>

TransportOutcomes(k) ==
    { Ok([messageId |-> Some(MessageIdOf(k))]),
      Ok([messageId |-> None]),
      Throw(Error(<<"connect ECONNREFUSED">>)),
      Throw(NonError(<<"socket closed">>)) }

(***************************************************************************)
(* sendBulkEmails: Promise.all(messages.map(message => sendEmail(message)))*)
(***************************************************************************)
\* messages.map(..): the sends start in index order, each up to its await, on the
\* cache the earlier ones left.  `sends` holds what has been started so far.
RECURSIVE MapSendEmail(_, _, _, _)
MapSendEmail(messages, sends, cache, dflt) ==
    IF Len(sends) = Len(messages) THEN [sends |-> sends, cache |-> cache]
    ELSE
        LET s == SendEmailToAwait(messages[Len(sends) + 1], cache, dflt)
            sent == Cardinality({j \in DOMAIN sends : sends[j].mail # None})
        IN MapSendEmail(messages,
                        Append(sends, [promise |-> s.promise, mail |-> s.mail,
                                       compile |-> s.compile, reply |-> None,
                                       seq |-> IF s.mail # None THEN sent + 1 ELSE 0]),
                        s.cache, dflt)

\* Mutant of PromiseAllStore: the values are pushed in the order of completion.
PromiseAllPush(values, i, v) == Append(values, v)

\* Promise.all stores the value of the promise at index i at index i.
PromiseAllStore(values, i, v) == (i :> v) @@ values

\* Promise.all's values for the promises already settled when it subscribes: their
\* reactions run in index order.
RECURSIVE PromiseAllInitial(_, _, _)
PromiseAllInitial(sends, i, values) ==
    IF i > Len(sends) THEN values
    ELSE PromiseAllInitial(sends, i + 1,
            IF sends[i].promise.state = "fulfilled"
            THEN PromiseAllStore(values, i, sends[i].promise.value)
            ELSE values)

\* Mutant of PromiseAllState: settled by the first promise that settles
\* (Promise.race).
PromiseRaceState(sends) ==
    IF sends = <<>> THEN "fulfilled"
    ELSE IF \E i \in DOMAIN sends : sends[i].promise.state = "rejected" THEN "rejected"
    ELSE IF \E i \in DOMAIN sends : sends[i].promise.state = "fulfilled" THEN "fulfilled"
    ELSE "pending"

\* Promise.all rejects with the first rejection, and is fulfilled when every
\* promise is.
PromiseAllState(sends) ==
    IF \E i \in DOMAIN sends : sends[i].promise.state = "rejected" THEN "rejected"
    ELSE IF \A i \in DOMAIN sends : sends[i].promise.state = "fulfilled" THEN "fulfilled"
    ELSE "pending"

NoCall == [kind |-> "none", messages |-> <<>>, sends |-> <<>>, values |-> <<>>,
           outer |-> "idle"]

StartCall(kind, messages) ==
    LET m == MapSendEmail(messages, <<>>, templateCache, defaultFrom) IN
    /\ call' = [kind |-> kind, messages |-> messages, sends |-> m.sends,
                values |-> PromiseAllInitial(m.sends, 1, <<>>),
                outer |-> PromiseAllState(m.sends)]
    /\ templateCache' = m.cache

(***************************************************************************)
(* ServiceResponse (serviceApi.ts)                                         *)
(***************************************************************************)
StatusOK == 200
StatusInternalServerError == 500

\* ServiceResponse.createResponse
createResponse(status, message, data) ==
    [status |-> status, message |-> message, data |-> data, pagination |-> None]

\* Mutant of createErrorResponse: the HttpError takes the message of the error.
createErrorResponseOwnMessage(error) ==
    IF InstanceOfHttpError(error) THEN Throw(error)
    ELSE Throw(HttpError(StatusInternalServerError, error.message, FALSE, Some(error)))

\* ServiceResponse.createErrorResponse: never returns, throws an HttpError.
createErrorResponse(error) ==
    IF InstanceOfHttpError(error) THEN Throw(error)
    ELSE IF IsApiErrorShape(error)
    THEN Throw(HttpError(error.status, error.message,
                         error.status < StatusInternalServerError, None))
    ELSE Throw(HttpError(StatusInternalServerError, <<"Internal Server Error">>, FALSE,
                         Some(error)))

(***************************************************************************)
(* EmailService.validateSmtpConnection                                     *)
(***************************************************************************)
PortSMTPS == 465
PortSubmission == 587
PortSMTP == 25
TimeoutMs == 10000

\* The bodies emailUpdateSchema lets through (the port is a number by then).
SmtpConfigs ==
    [host : {"smtp.x.io", "mail.y.io"},
     port : {PortSMTP, PortSMTPS, PortSubmission, 2525, 1025},
     secure : BOOLEAN,
     username : {"smtp-user@x.io"},
     password : {"secret"},
     fromName : {"Shop"},
     fromEmail : {"bob@x.io"}]

\* Number(smtpConfig.port): the port is already a number.
ToNumber(port) == port

\* Mutant of TlsSettings: port 465 keeps the caller's secure flag.
TlsSettingsKeepCaller(port, secure) ==
    IF port = PortSubmission \/ port = PortSMTP
    THEN [secure |-> FALSE, requireTLS |-> TRUE]
    ELSE [secure |-> secure, requireTLS |-> FALSE]

\* The effective secure / requireTLS for a port and the caller's secure flag.
TlsSettings(port, secure) ==
    IF port = PortSMTPS THEN [secure |-> TRUE, requireTLS |-> FALSE]
    ELSE IF port = PortSubmission \/ port = PortSMTP
    THEN [secure |-> FALSE, requireTLS |-> TRUE]
    ELSE [secure |-> secure, requireTLS |-> FALSE]

\* The options of the transient transport nodemailer.createTransport is given.
ValidationTransport(smtpConfig) ==
    LET port == ToNumber(smtpConfig.port)
        tls == TlsSettings(port, smtpConfig.secure)
    IN [host |-> smtpConfig.host,
        port |-> port,
        secure |-> tls.secure,
        requireTLS |-> tls.requireTLS,
        auth |-> [user |-> smtpConfig.username, pass |-> smtpConfig.password],
        tls |-> [rejectUnauthorized |-> FALSE, minVersion |-> "TLSv1", ciphers |-> "SSLv3"],
        connectionTimeout |-> TimeoutMs,
        greetingTimeout |-> TimeoutMs,
        socketTimeout |-> TimeoutMs]

\* What transporter.verify() may answer: the handshake completes, or fails with a
\* connection, authentication, TLS or timeout error.
VerifyOutcomes ==
    { Ok(TRUE),
      Throw(Error(<<"connect ECONNREFUSED">>)),
      Throw(Error(<<"Invalid login: 535 Authentication failed">>)),
      Throw(Error(<<"self signed certificate">>)),
      Throw(Error(<<"Connection timeout">>)) }

\* Mutant of ValidateAfterVerify: the catch block returns a failure response.
ValidateAfterVerifyReturns(outcome) ==
    IF outcome.ok
    THEN Ok(createResponse(StatusOK, <<"SMTP connection validated successfully">>, TRUE))
    ELSE Ok(createResponse(StatusInternalServerError, outcome.error.message, FALSE))

\* validateSmtpConnection after `await transporter.verify()`: the response it
\* returns, or the error it throws to its caller.
ValidateAfterVerify(outcome) ==
    IF outcome.ok
    THEN Ok(createResponse(StatusOK, <<"SMTP connection validated successfully">>, TRUE))
    ELSE createErrorResponse(outcome.error)

\* The ids of the further instances.
InstanceIds == {1}

(***************************************************************************)
(* emailConfigSchema and the constructor of EmailSMTPService               *)
(***************************************************************************)
\* A JavaScript value that is a number, or text that reads as that number (the
\* decimal numeral of n): process.env holds text, a typed caller passes a number.
Num(n) == [t |-> "number", n |-> n]
Str(n) == [t |-> "string", n |-> n]

\* x === y: the same type and the same value.
StrictEquals(x, y) == x.t = y.t /\ x.n = y.n

\* z.coerce.number: Number(input)
CoerceNumber(x) == x.n

PortMin == 1
PortMax == 65535

\* The issues emailConfigSchema finds in a configuration.
ConfigIssues(config) ==
    IssueIf(config.host = "", "Host is too short")
    \o IssueIf(CoerceNumber(config.port) < PortMin, "Port is too small")
    \o IssueIf(CoerceNumber(config.port) > PortMax, "Port must be between 1 and 65535")
    \o IssueIf(config.auth.user = "", "Email is too short")
    \o IssueIf(~IsEmail(config.auth.user), "Email is invalid")
    \o IssueIf(config.auth.pass = "", "Password is too short")

\* emailConfigSchema.parse(config): the configuration with its port coerced to a
\* number, or a ZodError.
emailConfigSchema(config) ==
    IF ConfigIssues(config) # <<>> THEN Throw(ZodError(ConfigIssues(config)))
    ELSE Ok([config EXCEPT !.port = Num(CoerceNumber(config.port))])

(***************************************************************************)
(* The helper registry of Handlebars: one per process, helper name ->      *)
(* function.  A function is known by where it comes from.                  *)
(***************************************************************************)
\* The helpers Handlebars registers itself.
HandlebarsOwnHelperNames ==
    {"helperMissing", "blockHelperMissing", "each", "if", "unless", "with", "log", "lookup"}

\* The names initializeHandlebars registers.
BuiltinHelperNames ==
    {"formatDate", "formatCurrency", "formatNumber", "ifEquals", "ifNotEquals",
     "ifGreater", "ifLess", "length", "isEmpty", "isNotEmpty", "add", "subtract",
     "multiply", "divide", "modulo", "uppercase", "lowercase", "capitalize",
     "truncate", "json", "currentYear", "currentDate", "times"}

Own(name) == [origin |-> "handlebars", id |-> name]
Builtin(name) == [origin |-> "builtin", id |-> name]
Custom(id) == [origin |-> "custom", id |-> id]

\* The registry of a process in which no Dispatcher was constructed yet.
HandlebarsRegistry == [n \in HandlebarsOwnHelperNames |-> Own(n)]

\* Mutant of HandlebarsRegisterHelper: a name that is bound keeps its function.
HandlebarsRegisterHelperKeepFirst(registry, name, fn) ==
    [n \in DOMAIN registry \cup {name} |-> IF n \in DOMAIN registry THEN registry[n] ELSE fn]

\* Handlebars.registerHelper(name, fn)
HandlebarsRegisterHelper(registry, name, fn) ==
    [n \in DOMAIN registry \cup {name} |-> IF n = name THEN fn ELSE registry[n]]

\* Handlebars.registerHelper for every name of a batch (an object of helpers).
RECURSIVE RegisterAll(_, _)
RegisterAll(registry, batch) ==
    IF DOMAIN batch = {} THEN registry
    ELSE LET n == CHOOSE x \in DOMAIN batch : TRUE IN
         RegisterAll(HandlebarsRegisterHelper(registry, n, batch[n]),
                     [m \in DOMAIN batch \ {n} |-> batch[m]])

\* The batch initializeHandlebars registers.
BuiltinHelpers == [n \in BuiltinHelperNames |-> Builtin(n)]

\* initializeHandlebars() of an instance whose helpersRegistered flag is as given.
initializeHandlebars(registry, helpersRegistered) ==
    IF helpersRegistered THEN registry ELSE RegisterAll(registry, BuiltinHelpers)

\* nodemailer.createTransport(options): the transport is known by its options.
createTransport(validConfig) ==
    [host |-> validConfig.host, port |-> validConfig.port,
     secure |-> validConfig.secure, auth |-> validConfig.auth]

\* Mutant of NewEmailSMTPService: the configuration is validated after the transport
\* was created and the helpers were registered.
NewEmailSMTPServiceValidatesLast(config, registry) ==
    LET v == emailConfigSchema(config)
        options == createTransport([config EXCEPT !.port = Num(CoerceNumber(config.port))])
    IN [result |-> IF v.ok
                   THEN Ok([transporter |-> options, defaultFrom |-> config.auth.user,
                            templateCache |-> EmptyCache, helpersRegistered |-> TRUE])
                   ELSE Throw(v.error),
        created |-> Some(options),
        helpers |-> initializeHandlebars(registry, FALSE)]

\* new EmailSMTPService(config) in a process whose registry is as given: the
\* instance or the error thrown, the transport createTransport was asked for (if
\* it was), and the registry afterwards.
NewEmailSMTPService(config, registry) ==
    LET v == emailConfigSchema(config) IN
    IF ~v.ok
    THEN [result |-> Throw(v.error), created |-> None, helpers |-> registry]
    ELSE LET options == createTransport(v.value) IN
         [result |-> Ok([transporter |-> options,
                         defaultFrom |-> v.value.auth.user,
                         templateCache |-> EmptyCache,
                         helpersRegistered |-> TRUE]),
          created |-> Some(options),
          helpers |-> initializeHandlebars(registry, FALSE)]

(***************************************************************************)
(* createEmailService (service.ts): the Dispatcher of the environment      *)
(***************************************************************************)
PortSecureEnv == 465

\* process.env after envSchema let the process start: text values, SMTP_PORT the
\* numeral of an integer in 1..65535, SMTP_USER any text.
Envs ==
    [SMTP_HOST : {"smtp.x.io"},
     SMTP_PORT : {Str(465), Str(587)},
     SMTP_USER : {"smtp-user@x.io", "mailer"},
     SMTP_PASSWORD : {"secret"}]

\* The environment the Dispatcher of the process was configured for.
DefaultEnv ==
    [SMTP_HOST |-> "smtp.x.io", SMTP_PORT |-> Str(587), SMTP_USER |-> "smtp-user@x.io",
     SMTP_PASSWORD |-> "secret"]

\* The configuration createEmailService builds.
EnvConfig(e) ==
    [host |-> e.SMTP_HOST,
     port |-> e.SMTP_PORT,
     secure |-> StrictEquals(e.SMTP_PORT, Num(PortSecureEnv)),
     auth |-> [user |-> e.SMTP_USER, pass |-> e.SMTP_PASSWORD]]

createEmailService(e, registry) == NewEmailSMTPService(EnvConfig(e), registry)

(***************************************************************************)
(* The lookup bridge (service.ts): sendEmailWithTemplate and               *)
(* sendEmailWithDirectTemplate, over the template store and the            *)
(* configuration store.                                                    *)
(***************************************************************************)
StatusNotFound == 404

\* The rows of the emailTemplates table: "blank" has an empty body, "broken" a
\* body that does not parse.
TemplateRows ==
    [n \in {"welcome", "blank", "broken"} |->
        [name |-> n,
         subject |-> "Welcome",
         html |-> IF n = "welcome" THEN TplShort ELSE IF n = "blank" THEN <<>> ELSE TplBad]]

\* The rows of the email table: "default_smtp" holds the server of the
\* environment, "support" another server.
ConfigRows ==
    [n \in {"default_smtp", "support"} |->
        IF n = "default_smtp"
        THEN [emailConfigName |-> n, host |-> "smtp.x.io", port |-> Num(587),
              secure |-> FALSE, username |-> "smtp-user@x.io", password |-> "secret",
              fromName |-> "Shop", fromEmail |-> "bob@x.io"]
        ELSE [emailConfigName |-> n, host |-> "mail.y.io", port |-> Num(465),
              secure |-> TRUE, username |-> "ann@x.io", password |-> "hunter2",
              fromName |-> "Support", fromEmail |-> "ann@x.io"]]

\* What db.query.<table>.findFirst({where: eq(column, name)}) may answer: the row
\* of that name or undefined, or a failure of the database.
FindOutcomes(rows, name) ==
    { Ok(IF name \in DOMAIN rows THEN Some(rows[name]) ELSE None),
      Throw(Error(<<"Connection terminated unexpectedly">>)) }

\* EmailTemplateService.retrieveEmailTemplate after its findFirst settled.
retrieveEmailTemplate(found) ==
    IF ~found.ok THEN createErrorResponse(found.error)
    ELSE IF found.value = None
    THEN Ok(createResponse(StatusNotFound, <<"Email template not found">>, None))
    ELSE Ok(createResponse(StatusOK, <<"Email template retrieved successfully">>, found.value))

\* EmailService.retrieveOneByConfigName after its findFirst settled.
retrieveOneByConfigName(found) ==
    IF ~found.ok THEN createErrorResponse(found.error)
    ELSE IF found.value = None
    THEN Ok(createResponse(StatusNotFound, <<"Email not found">>, None))
    ELSE Ok(createResponse(StatusOK, <<"Email retrieved successfully">>, found.value))

\* Mutant of TemplateHasData: the template response is not checked.
TemplateHasDataUnchecked(response) == TRUE

\* `template?.data` is truthy: the response carries a row.
TemplateHasData(response) == response.data # None

\* Mutant of ConfigHasData: the configuration response is not checked.
ConfigHasDataUnchecked(response) == TRUE

\* `emailService?.data` is truthy.
ConfigHasData(response) == response.data # None

\* The inputs of sendEmailWithTemplate.
TemplateArgs ==
    LET required == [templateName : {"welcome", "blank", "broken", "missing"},
                     emailConfigName : {"default_smtp", "support", "absent"},
                     to : {"ann@x.io", "not-an-address"}]
    IN required
       \cup {With(a, "templateData", DataAl) : a \in required}
       \cup {With(a, "subject", "Override") : a \in required}

\* The inputs of sendEmailWithDirectTemplate (emailServiceInstance apart).
DirectArgs ==
    LET required == [to : {"ann@x.io", "not-an-address"},
                     subject : {"Hello"},
                     templateHtml : {TplShort, TplBad}]
    IN required
       \cup {With(a, "templateData", DataAl) : a \in required}
       \cup {With(With(a, "from", "bob@x.io"), "name", "Shop") : a \in required}

\* The message sendEmailWithTemplate hands to sendEmail; reading a field of a
\* null row is a TypeError.
TemplateMessage(args, template, emailService) ==
    IF template.data = None \/ emailService.data = None
    THEN Throw(Error(<<"Cannot read properties of null">>))
    ELSE LET m == [to |-> <<args.to>>,
                   subject |-> IF TruthyStr(args, "subject") THEN args.subject
                               ELSE template.data[1].subject,
                   templateHtml |-> template.data[1].html,
                   from |-> emailService.data[1].fromEmail,
                   name |-> emailService.data[1].fromName]
         IN Ok(IF Has(args, "templateData") THEN With(m, "templateData", args.templateData)
               ELSE m)

\* The message sendEmailWithDirectTemplate hands to sendEmail.
DirectMessage(args) ==
    [f \in DOMAIN args |-> IF f = "to" THEN <<args.to>> ELSE args[f]]

\* Mutant of ThrowIfFailed: the result of sendEmail is not checked.
ThrowIfFailedUnchecked(result) == Ok(TRUE)

\* if (!result.success) throw new Error(result.error || "Failed to send email")
ThrowIfFailed(result) ==
    IF result.success THEN Ok(TRUE)
    ELSE Throw(Error(IF "error" \in DOMAIN result /\ result.error # <<>> THEN result.error
                     ELSE <<"Failed to send email">>))

\* The catch block of sendEmailWithTemplate: the error thrown in its place.
WrapError(args, error) ==
    Error(<<"Failed to send email with template '", args.templateName, "' to '", args.to,
            "': ">> \o error.message)

NoBridge ==
    [pc |-> "idle", kind |-> "none", args |-> <<>>, templateLookup |-> None,
     configLookup |-> None, service |-> None, send |-> None, outcome |-> None]

\* The call in flight ends by throwing error (wrapped by sendEmailWithTemplate's
\* catch block), or by returning.
BridgeEnds(b, completion) ==
    IF completion.ok THEN [b EXCEPT !.pc = "returned", !.outcome = Some(completion)]
    ELSE [b EXCEPT !.pc = "thrown",
                   !.outcome = Some(Throw(IF b.kind = "template"
                                          THEN WrapError(b.args, completion.error)
                                          ELSE completion.error))]

\* `await service.sendEmail(message)` up to the transport: sendEmail was called,
\* and either waits for the transport or has returned its failure.
BridgeSends(b, message, s) ==
    LET sent == [b EXCEPT !.send = Some([message |-> message, promise |-> s.promise,
                                         mail |-> s.mail, compile |-> s.compile,
                                         reply |-> None])]
    IN IF s.promise.state = "pending" THEN [sent EXCEPT !.pc = "sending"]
       ELSE BridgeEnds(sent, ThrowIfFailed(s.promise.value))

(***************************************************************************)
(* The built-in helpers divide, modulo and truncate, and the call of a     *)
(* helper by a template being rendered.                                    *)
(*                                                                         *)
(* The numbers helpers are called with are integers; a quotient that is    *)
(* not an integer is kept as a fraction in lowest terms.  0 and -0 are one *)
(* value (they render alike).                                              *)
(***************************************************************************)
MaxOperand == 3

Frac(p, q) == [t |-> "fraction", p |-> p, q |-> q]
Infinity(sign) == [t |-> "infinity", sign |-> sign]
NaN == [t |-> "NaN"]

Abs(n) == IF n < 0 THEN -n ELSE n
Sign(n) == IF n < 0 THEN -1 ELSE IF n = 0 THEN 0 ELSE 1

RECURSIVE Gcd(_, _)
Gcd(a, b) == IF b = 0 THEN a ELSE Gcd(b, a % b)

\* a / b on JavaScript numbers.
JsDivide(a, b) ==
    IF b = 0 THEN (IF a = 0 THEN NaN ELSE Infinity(Sign(a)))
    ELSE IF Abs(a) % Abs(b) = 0 THEN Num(Sign(a) * Sign(b) * (Abs(a) \div Abs(b)))
    ELSE LET g == Gcd(Abs(a), Abs(b)) IN
         Frac(Sign(a) * Sign(b) * (Abs(a) \div g), Abs(b) \div g)

\* a % b on JavaScript numbers: the remainder has the sign of the dividend.
JsRemainder(a, b) ==
    IF b = 0 THEN NaN ELSE Num(Sign(a) * (Abs(a) % Abs(b)))

\* Mutant of divide: the divisor is not tested.
divideUnguarded(a, b) == Ok(JsDivide(a, b))

\* (a, b) => (b !== 0 ? a / b : 0)
divide(a, b) == Ok(IF b # 0 THEN JsDivide(a, b) ELSE Num(0))

\* (a, b) => (b !== 0 ? a % b : 0)
modulo(a, b) == Ok(IF b # 0 THEN JsRemainder(a, b) ELSE Num(0))

\* "..." as bytes
Ellipsis == <<46, 46, 46>>

\* str.substring(0, length): a negative length counts as 0.
Substring(str, length) == Substring0(str, IF length < 0 THEN 0 ELSE length)

\* Mutant of truncate: a string of exactly `length` characters is cut as well.
truncateStrictlyShorter(str, length) ==
    IF str = <<>> \/ Len(str) < length THEN Ok(str)
    ELSE Ok(Substring(str, length) \o Ellipsis)

\* (str, length) => { if (!str || str.length <= length) return str;
\*                    return str.substring(0, length) + "..." }
truncate(str, length) ==
    IF str = <<>> \/ Len(str) <= length THEN Ok(str)
    ELSE Ok(Substring(str, length) \o Ellipsis)

\* Values a helper is called with besides numbers: text, undefined, and the
\* options object Handlebars passes after the parameters written in the template.
Text(s) == [t |-> "text", s |-> s]
Undefined == [t |-> "undefined"]
HelperOptions(name) == [t |-> "object", name |-> name]

\* helper.call(context, ...params, options): the arguments a helper receives for
\* the parameters written in the template.
HelperCall(name, params) == params \o <<HelperOptions(name)>>

\* "USD", "EUR" and "[object Object]"
USD == <<85, 83, 68>>
EUR == <<69, 85, 82>>
ObjectObject == <<91, 111, 98, 106, 101, 99, 116, 32, 79, 98, 106, 101, 99, 116, 93>>

\* String(v) of a text or an object.
JsToString(v) == IF v.t = "text" THEN v.s ELSE ObjectObject

IsAsciiLetter(b) == (b >= 65 /\ b <= 90) \/ (b >= 97 /\ b <= 122)

\* IsWellFormedCurrencyCode of ECMA-402: three ASCII letters.
IsWellFormedCurrencyCode(code) ==
    Len(code) = 3 /\ \A i \in 1..3 : IsAsciiLetter(code[i])

\* The decimal numeral of a natural number.
RECURSIVE Digits(_)
Digits(n) == IF n < 10 THEN <<48 + n>> ELSE Digits(n \div 10) \o <<48 + (n % 10)>>

\* The numerator and the denominator of a number.
NumeratorOf(v) == IF v.t = "number" THEN v.n ELSE v.p
DenominatorOf(v) == IF v.t = "number" THEN 1 ELSE v.q

\* The amount in hundredths, rounded half away from zero.
Hundredths(v) == (200 * Abs(NumeratorOf(v)) + DenominatorOf(v)) \div (2 * DenominatorOf(v))

\* "$", the euro sign, or the code and a no-break space.
CurrencySymbol(code) ==
    IF code = USD THEN <<36>> ELSE IF code = EUR THEN <<8364>> ELSE code \o <<160>>

\* new Intl.NumberFormat("en-US", {style: "currency", currency}).format(amount)
\* for an amount below 1000 in a currency of two decimals.
IntlFormatCurrency(amount, code) ==
    LET h == Hundredths(amount) IN
    (IF NumeratorOf(amount) < 0 /\ h > 0 THEN <<45>> ELSE <<>>)
    \o CurrencySymbol(code) \o Digits(h \div 100) \o <<46>>
    \o <<48 + ((h \div 10) % 10), 48 + (h % 10)>>

\* (amount, currency = "USD") => { try { return new Intl.NumberFormat("en-US",
\*   {style: "currency", currency}).format(amount) } catch { return amount } }
\* on the arguments it is called with: the default applies to a second argument
\* that is missing or undefined; a currency that is not a well-formed code makes
\* the NumberFormat constructor throw a RangeError, which the catch answers.
formatCurrency(arguments) ==
    LET amount == arguments[1]
        currency == IF Len(arguments) < 2 \/ arguments[2].t = "undefined"
                    THEN Text(USD) ELSE arguments[2]
        code == JsToString(currency)
    IN IF IsWellFormedCurrencyCode(code) THEN Ok(Text(IntlFormatCurrency(amount, code)))
       ELSE Ok(amount)

\* The amounts 5, 19.5 and -3.
Amounts == {Num(5), Frac(39, 2), Num(-3)}

\* "hi" and "hello world"
StrHi == <<104, 105>>
StrHelloWorld == <<104, 101, 108, 108, 111, 32, 119, 111, 114, 108, 100>>

\* The names and arguments the templates of the model call helpers with.
HelperArgs(name) ==
    IF name \in {"divide", "modulo"}
    THEN (-MaxOperand..MaxOperand) \X (-MaxOperand..MaxOperand)
    ELSE IF name = "formatCurrency"
    THEN {<<a>> : a \in Amounts} \cup {<<a, Text(c)>> : a \in Amounts, c \in {USD, EUR}}
    ELSE {<<>>, StrHi, StrHelloWorld} \X {-1, 0, 2, 5, 11, 20}

\* The functions of the registry whose body the model has.
Callable(fn) ==
    \/ fn.origin = "custom"
    \/ fn.origin = "builtin" /\ fn.id \in {"divide", "modulo", "truncate", "formatCurrency"}

\* fn(args): what the function bound to a helper name returns or throws.  A custom
\* function is known by the value it returns.
ApplyHelper(fn, args) ==
    IF fn.origin = "custom" THEN Ok([t |-> "custom", id |-> fn.id])
    ELSE IF fn.id = "divide" THEN divide(args[1], args[2])
    ELSE IF fn.id = "modulo" THEN modulo(args[1], args[2])
    ELSE IF fn.id = "formatCurrency" THEN formatCurrency(HelperCall(fn.id, args))
    ELSE truncate(args[1], args[2])

(***************************************************************************)
(* Further instances of EmailSMTPService: what callers construct them      *)
(* from, register and send.                                                *)
(***************************************************************************)
MaxLog == 3

\* The configuration the Dispatcher of the process was constructed from.
DefaultConfig ==
    [host |-> "smtp.x.io", port |-> Num(587), secure |-> FALSE,
     auth |-> [user |-> "smtp-user@x.io", pass |-> "secret"]]

\* Two configurations that satisfy emailConfigSchema, and one for each way of
\* violating it.
ConfigAnn ==
    [host |-> "mail.y.io", port |-> Num(465), secure |-> TRUE,
     auth |-> [user |-> "ann@x.io", pass |-> "hunter2"]]

ConstructorConfigs ==
    { DefaultConfig, ConfigAnn,
      [ConfigAnn EXCEPT !.host = ""],
      [ConfigAnn EXCEPT !.port = Num(0)],
      [ConfigAnn EXCEPT !.port = Num(65536)],
      [ConfigAnn EXCEPT !.auth.user = "mailer"],
      [ConfigAnn EXCEPT !.auth.pass = ""] }

\* registerHelper(name, fn): "truncate" is the name of a built-in helper.
CustomRegistrations ==
    {(name :> Custom(id)) : name \in {"shout", "truncate"}, id \in {1, 2}}

\* registerHelpers({shout: .., truncate: ..})
CustomBatches == {("shout" :> Custom(2)) @@ ("truncate" :> Custom(1))}

\* A message that sets every optional field of the mail: text, html and a
\* template, copies and an attachment.
FullMsg ==
    [to |-> <<"ann@x.io">>, subject |-> "Hello", text |-> TextHi, html |-> HtmlHi,
     templateHtml |-> TplShort, templateData |-> DataAl,
     cc |-> <<"bob@x.io">>, bcc |-> <<"smtp-user@x.io", "bob@x.io">>,
     attachments |-> <<[filename |-> "terms.pdf", path |-> "/srv/terms.pdf"]>>]

\* The messages sent through a further instance: the four ways of giving a
\* display name and a sender, an empty display name, two templates with data, a
\* message with every field, the same without its template, and one whose
\* templateHtml is the empty string.
LifecycleMessages ==
    LET text == With(BaseMsg, "text", TextHi) IN
    { text,
      With(text, "name", "Shop"),
      With(text, "from", "bob@x.io"),
      With(With(text, "name", "Shop"), "from", "bob@x.io"),
      With(With(text, "name", ""), "from", "bob@x.io"),
      With(With(BaseMsg, "templateHtml", TplShort), "templateData", DataAl),
      With(With(With(BaseMsg, "templateHtml", TplLongA), "templateData", DataAl),
           "name", "Shop"),
      FullMsg,
      [f \in DOMAIN FullMsg \ {"templateHtml", "templateData"} |-> FullMsg[f]],
      With(With(BaseMsg, "templateHtml", <<>>), "html", HtmlHi) }

\* Map.prototype.clear
MapClear(cache) == EmptyCache

\* Mutant of clearTemplateCache: only the entry of the first key is deleted.
clearTemplateCacheFirstOnly(cache) ==
    IF DOMAIN cache = {} THEN cache
    ELSE LET k == CHOOSE x \in DOMAIN cache : TRUE IN
         [j \in DOMAIN cache \ {k} |-> cache[j]]

\* clearTemplateCache(): the cache it leaves.
clearTemplateCache(cache) == MapClear(cache)

(***************************************************************************)
(* The email table, EmailService.retrieveOne / update, EmailController and *)
(* EmailSeeder.                                                            *)
(*                                                                         *)
(* A row of the table is a record of its columns without the timestamps;   *)
(* the table is the sequence of its rows in the order of their ids.  What  *)
(* the database answers to a statement is "ok" or an error it raises.      *)
(***************************************************************************)
MaxRuns == 3

\* The names of the configurations EmailSeeder creates, in its order.
SeedConfigNames == <<"default_smtp", "notifications", "support">>

\* The EmailConfigData of a name, from the environment.
EmailConfigData(e, name) ==
    [emailConfigName |-> name,
     host |-> e.SMTP_HOST,
     port |-> e.SMTP_PORT,
     username |-> e.SMTP_USER,
     password |-> e.SMTP_PASSWORD,
     secure |-> StrictEquals(e.SMTP_PORT, Num(PortSecureEnv)),
     fromName |-> "Webphics",
     fromEmail |-> "info@webphics.com"]

\* The row the database stores for inserted values: the next serial id, and the
\* port as an integer.
EmailRow(id, values) ==
    [id |-> id,
     emailConfigName |-> values.emailConfigName,
     host |-> values.host,
     port |-> CoerceNumber(values.port),
     username |-> values.username,
     password |-> values.password,
     secure |-> values.secure,
     fromName |-> values.fromName,
     fromEmail |-> values.fromEmail]

\* What the database may raise instead of answering: a plain Error, a thrown
\* value that is no Error, and an object of the ApiError shape.
ConnectionError == Error(<<"Connection terminated unexpectedly">>)
StatusConflict == 409
ApiShapedError ==
    [kind |-> "ApiErrorShape", status |-> StatusConflict, message |-> <<"Conflict">>,
     success |-> FALSE]
DbErrors == {ConnectionError, NonError(<<"socket hang up">>), ApiShapedError}
DbOutcomes == {Ok(TRUE)} \cup {Throw(e) : e \in DbErrors}

\* select().from(email).where(eq(email.emailConfigName, name)).limit(1)
DbSelectByName(table, name) ==
    Substring0(SelectSeq(table, LAMBDA r : r.emailConfigName = name), 1)

\* insert(email).values(values): emailConfigName is unique.
DbInsert(table, values) ==
    IF \E i \in DOMAIN table : table[i].emailConfigName = values.emailConfigName
    THEN Throw(Error(<<"duplicate key value violates unique constraint">>))
    ELSE Ok(Append(table, EmailRow(Len(table) + 1, values)))

\* query.email.findFirst({where: eq(email.id, id)}): the row, or undefined.
DbFindFirstById(table, id) ==
    LET rows == SelectSeq(table, LAMBDA r : r.id = id) IN
    IF rows = <<>> THEN None ELSE Some(rows[1])

\* update(email).set(data).where(eq(email.id, id)).returning(): the table it
\* leaves and the rows it returns.
DbUpdateById(table, id, data) ==
    LET after == [i \in DOMAIN table |->
                    IF table[i].id = id
                    THEN [f \in DOMAIN table[i] |->
                            IF f \in DOMAIN data THEN data[f] ELSE table[i][f]]
                    ELSE table[i]]
    IN [table |-> after, rows |-> SelectSeq(after, LAMBDA r : r.id = id)]

\* The table after one complete run of the seeder on an empty database.
SeededTable(e) ==
    [i \in DOMAIN SeedConfigNames |-> EmailRow(i, EmailConfigData(e, SeedConfigNames[i]))]

\* ServiceResponse.createRejectResponse: throws an HttpError.
createRejectResponse(status, message) ==
    Throw(HttpError(status, message, HttpErrorDefaultExpose(status), None))

\* Mutant of TryCatchErrorResponse: the catch block wraps whatever was thrown.
TryCatchErrorResponseWrapsAll(completion) ==
    IF completion.ok THEN completion
    ELSE Throw(HttpError(StatusInternalServerError, <<"Internal Server Error">>, FALSE,
                         Some(completion.error)))

\* try { .. } catch (error) { return ServiceResponse.createErrorResponse(error) }
\* around a body that completed as given.
TryCatchErrorResponse(completion) ==
    IF completion.ok THEN completion ELSE createErrorResponse(completion.error)

\* EmailService.retrieveOne after `await findFirst`, which answered as given.
retrieveOne(found) ==
    TryCatchErrorResponse(
        IF ~found.ok THEN found
        ELSE IF found.value = None
        THEN createRejectResponse(StatusNotFound, <<"Email not found">>)
        ELSE Ok(createResponse(StatusOK, <<"Email retrieved successfully">>, found.value[1])))

\* EmailService.update after `await ...returning().then(rows => rows[0])`, which
\* answered as given.
update(returned) ==
    TryCatchErrorResponse(
        IF ~returned.ok THEN returned
        ELSE IF returned.value = <<>>
        THEN createRejectResponse(StatusNotFound, <<"Email not found">>)
        ELSE Ok(createResponse(StatusOK, <<"Email updated successfully">>,
                               returned.value[1])))

IsDigit(b) == b >= 48 /\ b <= 57

RECURSIVE DigitsValue(_)
DigitsValue(s) ==
    IF s = <<>> THEN 0 ELSE 10 * DigitsValue(SubSeq(s, 1, Len(s) - 1)) + (s[Len(s)] - 48)

\* Number(text) of a route parameter (never empty): the number a decimal numeral
\* denotes, and NaN (None) for text with another character.
JsNumber(text) ==
    IF \A i \in DOMAIN text : IsDigit(text[i]) THEN Some(DigitsValue(text)) ELSE None

\* request.params.id: "1", "9" and "abc"
IdParams == {<<49>>, <<57>>, <<97, 98, 99>>}

\* Bodies of an update request: two that satisfy emailUpdateSchema, one whose
\* port does not.
BodyMail ==
    [host |-> "mail.y.io", port |-> PortSMTPS, secure |-> TRUE,
     username |-> "smtp-user@x.io", password |-> "secret",
     fromName |-> "Shop", fromEmail |-> "bob@x.io"]
UpdateBodies ==
    { BodyMail,
      [BodyMail EXCEPT !.host = "smtp.x.io", !.port = PortSubmission, !.secure = FALSE],
      [BodyMail EXCEPT !.port = 0] }

\* emailUpdateSchema.safeParse(body)
emailUpdateSchema(body) ==
    LET issues == IssueIf(body.port < PortMin, "Port is too small")
                  \o IssueIf(body.port > PortMax, "Port must be between 1 and 65535")
    IN IF issues # <<>> THEN Throw(ZodError(issues)) ELSE Ok(body)

\* this.apiResponse.badResponse(message) and this.apiResponse.sendResponse(data)
badResponse(message) == [sent |-> "badResponse", message |-> message]
sendResponse(data) == [sent |-> "sendResponse", data |-> data]

\* Mutant of AfterValidate: update goes on whatever the validation did.
AfterValidateIgnoresFailure(validation) == [pc |-> "updating"]

\* EmailController.update after `await validateSmtpConnection(check.data)`: an
\* error the validation threw leaves update; otherwise emailService.update is
\* called.
AfterValidate(validation) ==
    IF validation.pc = "thrown" THEN [pc |-> "thrown", error |-> validation.error]
    ELSE [pc |-> "updating"]

\* Mutant of ConfigExists: the seeder takes no configuration for existing.
ConfigExistsNever(existingConfig) == FALSE

\* existingConfig.length > 0
ConfigExists(existingConfig) == Len(existingConfig) > 0

NoRequest == [pc |-> "idle", op |-> "none"]
NoSeeding == [pc |-> "idle", runs |-> 0, completed |-> FALSE]

(***************************************************************************)
(* The state machine.                                                      *)
(***************************************************************************)
NoInstance == None
NoOperation == [op |-> "none"]

\* The process after new EmailSMTPService(DefaultConfig), in environment e, with
\* the given rows in the email table.
InitStored(e, table) ==
    LET d == NewEmailSMTPService(DefaultConfig, HandlebarsRegistry) IN
    /\ templateCache = d.result.value.templateCache
    /\ defaultFrom = d.result.value.defaultFrom
    /\ call = NoCall
    /\ smtp = [pc |-> "idle"]
    /\ env = e
    /\ bridge = NoBridge
    /\ helpers = d.helpers
    /\ instances = [i \in InstanceIds |-> NoInstance]
    /\ log = <<>>
    /\ last = NoOperation
    /\ emailTable = table
    /\ request = NoRequest
    /\ seeding = NoSeeding

\* The same with an empty email table.
InitIn(e) == InitStored(e, <<>>)

Init == InitIn(DefaultEnv)

\* A caller awaits sendEmail(message).
SendEmail(message) ==
    /\ call.kind = "none"
    /\ StartCall("single", <<message>>)
    /\ UNCHANGED <<defaultFrom, smtp, bridgeVars, lifecycleVars, storeVars>>

\* A caller awaits sendBulkEmails(messages).
SendBulkEmails(messages) ==
    /\ call.kind = "none"
    /\ StartCall("bulk", messages)
    /\ UNCHANGED <<defaultFrom, smtp, bridgeVars, lifecycleVars, storeVars>>

\* The transport answers the send of message i; sendEmail resumes after its await
\* and settles its promise, and Promise.all reacts.
TransportReply(i, outcome) ==
    /\ call.outer = "pending"
    /\ call.sends[i].promise.state = "pending"
    /\ LET p == SendEmailAfterAwait(outcome)
           sends == [call.sends EXCEPT ![i].promise = p, ![i].reply = Some(outcome)]
       IN call' = [call EXCEPT
                     !.sends = sends,
                     !.values = IF p.state = "fulfilled"
                                THEN PromiseAllStore(call.values, i, p.value)
                                ELSE call.values,
                     !.outer = PromiseAllState(sends)]
    /\ UNCHANGED <<templateCache, defaultFrom, smtp, bridgeVars, lifecycleVars, storeVars>>

\* The awaiting caller resumes with the value (or the rejection) of the call.
CallReturns ==
    /\ call.outer \in {"fulfilled", "rejected"}
    /\ call' = NoCall
    /\ UNCHANGED <<templateCache, defaultFrom, smtp, bridgeVars, lifecycleVars, storeVars>>

\* clearTemplateCache(), called between two calls of the caller.
ClearTemplateCache ==
    /\ call.kind = "none"
    /\ templateCache' = clearTemplateCache(templateCache)
    /\ UNCHANGED <<defaultFrom, call, smtp, bridgeVars, lifecycleVars, storeVars>>

BulkInputs == UNION {[1..n -> Messages] : n \in 0..MaxBulk}

Next ==
    \/ \E message \in Messages : SendEmail(message)
    \/ \E messages \in BulkInputs : SendBulkEmails(messages)
    \/ \E i \in DOMAIN call.sends : \E outcome \in TransportOutcomes(call.sends[i].seq) :
          TransportReply(i, outcome)
    \/ CallReturns
    \/ ClearTemplateCache

Spec == Init /\ [][Next]_vars

\* A caller awaits validateSmtpConnection(smtpConfig): the transient transport is
\* created and verify() is called.
ValidateSmtpConnection(smtpConfig) ==
    /\ smtp.pc # "verifying"
    /\ smtp' = [pc |-> "verifying", config |-> smtpConfig,
                transport |-> ValidationTransport(smtpConfig)]
    /\ UNCHANGED <<templateCache, defaultFrom, call, bridgeVars, lifecycleVars, storeVars>>

\* verify() settles; validateSmtpConnection returns or throws.
VerifyReply(outcome) ==
    /\ smtp.pc = "verifying"
    /\ LET r == ValidateAfterVerify(outcome) IN
       smtp' = IF r.ok
               THEN [pc |-> "returned", config |-> smtp.config,
                     transport |-> smtp.transport, verify |-> outcome,
                     response |-> r.value]
               ELSE [pc |-> "thrown", config |-> smtp.config,
                     transport |-> smtp.transport, verify |-> outcome,
                     error |-> r.error]
    /\ UNCHANGED <<templateCache, defaultFrom, call, bridgeVars, lifecycleVars, storeVars>>

NextSmtp ==
    \/ \E smtpConfig \in SmtpConfigs : ValidateSmtpConnection(smtpConfig)
    \/ \E outcome \in VerifyOutcomes : VerifyReply(outcome)

SpecSmtp == Init /\ [][NextSmtp]_vars

\* A caller awaits sendEmailWithTemplate(args): the template is looked up.
SendEmailWithTemplate(args) ==
    /\ bridge.pc = "idle"
    /\ bridge' = [NoBridge EXCEPT !.pc = "template", !.kind = "template", !.args = args]
    /\ UNCHANGED <<templateCache, defaultFrom, call, smtp, env, lifecycleVars, storeVars>>

\* retrieveEmailTemplate settles: the call throws, or goes on to look up the
\* configuration.
TemplateLookupReply(found) ==
    /\ bridge.pc = "template"
    /\ LET r == retrieveEmailTemplate(found)
           b == [bridge EXCEPT !.templateLookup = Some(r)]
       IN bridge' =
            IF ~r.ok THEN BridgeEnds(b, r)
            ELSE IF ~TemplateHasData(r.value)
            THEN BridgeEnds(b, Throw(Error(<<"Email template '", bridge.args.templateName,
                                             "' not found or has no data">>)))
            ELSE [b EXCEPT !.pc = "config"]
    /\ UNCHANGED <<templateCache, defaultFrom, call, smtp, env, lifecycleVars, storeVars>>

\* retrieveOneByConfigName settles: the call throws, or constructs its Dispatcher
\* and calls sendEmail.
ConfigLookupReply(found) ==
    /\ bridge.pc = "config"
    /\ LET r == retrieveOneByConfigName(found)
           b == [bridge EXCEPT !.configLookup = Some(r)]
           svc == createEmailService(env, helpers)
           withSvc == [b EXCEPT !.service = Some([created |-> svc.created,
                                                  result |-> svc.result])]
           m == TemplateMessage(bridge.args, bridge.templateLookup[1].value, r.value)
       IN IF ~r.ok THEN bridge' = BridgeEnds(b, r) /\ helpers' = helpers
          ELSE IF ~ConfigHasData(r.value)
          THEN /\ bridge' = BridgeEnds(b, Throw(Error(
                                <<"Email service configuration '", bridge.args.emailConfigName,
                                  "' not found or has no data">>)))
               /\ helpers' = helpers
          ELSE /\ helpers' = svc.helpers
               /\ bridge' =
                    IF ~svc.result.ok THEN BridgeEnds(withSvc, svc.result)
                    ELSE IF ~m.ok THEN BridgeEnds(withSvc, m)
                    ELSE BridgeSends(withSvc, m.value,
                                     SendEmailToAwait(m.value, svc.result.value.templateCache,
                                                      svc.result.value.defaultFrom))
    /\ UNCHANGED <<templateCache, defaultFrom, call, smtp, env, instances, log, last, storeVars>>

\* A caller awaits sendEmailWithDirectTemplate(args) with the Dispatcher of the
\* process as emailServiceInstance (given), or without one.
SendEmailWithDirectTemplate(args, given) ==
    /\ bridge.pc = "idle"
    /\ call.kind = "none"
    /\ LET b == [NoBridge EXCEPT !.kind = "direct", !.args = args]
           svc == createEmailService(env, helpers)
           withSvc == [b EXCEPT !.service = Some([created |-> svc.created,
                                                  result |-> svc.result])]
           m == DirectMessage(args)
       IN IF given
          THEN LET s == SendEmailToAwait(m, templateCache, defaultFrom) IN
               /\ bridge' = BridgeSends(b, m, s)
               /\ templateCache' = s.cache
               /\ helpers' = helpers
          ELSE /\ helpers' = svc.helpers
               /\ templateCache' = templateCache
               /\ bridge' =
                    IF ~svc.result.ok THEN BridgeEnds(withSvc, svc.result)
                    ELSE BridgeSends(withSvc, m,
                                     SendEmailToAwait(m, svc.result.value.templateCache,
                                                      svc.result.value.defaultFrom))
    /\ UNCHANGED <<defaultFrom, call, smtp, env, instances, log, last, storeVars>>

\* The transport answers the send of the call; sendEmail returns its result and
\* the call returns or throws.
BridgeTransportReply(outcome) ==
    /\ bridge.pc = "sending"
    /\ LET p == SendEmailAfterAwait(outcome)
           b == [bridge EXCEPT !.send = Some([bridge.send[1] EXCEPT !.promise = p,
                                                                    !.reply = Some(outcome)])]
       IN bridge' = BridgeEnds(b, ThrowIfFailed(p.value))
    /\ UNCHANGED <<templateCache, defaultFrom, call, smtp, env, lifecycleVars, storeVars>>

\* The awaiting caller resumes.
BridgeReturns ==
    /\ bridge.pc \in {"returned", "thrown"}
    /\ bridge' = NoBridge
    /\ UNCHANGED <<templateCache, defaultFrom, call, smtp, env, lifecycleVars, storeVars>>

InitBridge == \E e \in Envs : InitIn(e)

NextBridge ==
    \/ \E args \in TemplateArgs : SendEmailWithTemplate(args)
    \/ /\ bridge.pc = "template"
       /\ \E found \in FindOutcomes(TemplateRows, bridge.args.templateName) :
             TemplateLookupReply(found)
    \/ /\ bridge.pc = "config"
       /\ \E found \in FindOutcomes(ConfigRows, bridge.args.emailConfigName) :
             ConfigLookupReply(found)
    \/ \E args \in DirectArgs, given \in BOOLEAN : SendEmailWithDirectTemplate(args, given)
    \/ \E outcome \in TransportOutcomes(1) : BridgeTransportReply(outcome)
    \/ BridgeReturns

SpecBridge == InitBridge /\ [][NextBridge]_vars

\* Instance `by` exists: 0 is the Dispatcher of the process.
Constructed(by) == by = 0 \/ (by \in InstanceIds /\ instances[by] # NoInstance)

\* A caller runs instances[d] = new EmailSMTPService(config).
Construct(d, config) ==
    /\ Len(log) < MaxLog
    /\ LET c == NewEmailSMTPService(config, helpers) IN
       /\ instances' = IF c.result.ok THEN [instances EXCEPT ![d] = Some(c.result.value)]
                       ELSE instances
       /\ helpers' = c.helpers
       /\ log' = IF c.result.ok THEN Append(log, BuiltinHelpers) ELSE log
       /\ last' = [op |-> "construct", by |-> d, config |-> config, result |-> c.result,
                   created |-> c.created, helpersBefore |-> helpers,
                   instancesBefore |-> instances]
    /\ UNCHANGED <<templateCache, defaultFrom, call, smtp, bridgeVars, storeVars>>

\* registerHelper(name, fn) on instance `by`; registration is one name -> fn.
RegisterHelper(by, registration) ==
    /\ Len(log) < MaxLog
    /\ Constructed(by)
    /\ LET name == CHOOSE n \in DOMAIN registration : TRUE IN
       helpers' = HandlebarsRegisterHelper(helpers, name, registration[name])
    /\ log' = Append(log, registration)
    /\ last' = [op |-> "registerHelper", by |-> by]
    /\ UNCHANGED <<templateCache, defaultFrom, call, smtp, bridgeVars, instances, storeVars>>

\* registerHelpers(batch) on instance `by`.
RegisterHelpers(by, batch) ==
    /\ Len(log) < MaxLog
    /\ Constructed(by)
    /\ helpers' = RegisterAll(helpers, batch)
    /\ log' = Append(log, batch)
    /\ last' = [op |-> "registerHelpers", by |-> by]
    /\ UNCHANGED <<templateCache, defaultFrom, call, smtp, bridgeVars, instances, storeVars>>

\* clearTemplateCache() on the further instance d.
ClearTemplateCacheOf(d) ==
    /\ instances[d] # NoInstance
    /\ instances' = [instances EXCEPT ![d] =
                        Some([@[1] EXCEPT !.templateCache = clearTemplateCache(@)])]
    /\ last' = [op |-> "clearTemplateCache", by |-> d, helpersBefore |-> helpers,
                instancesBefore |-> instances]
    /\ UNCHANGED <<templateCache, defaultFrom, call, smtp, bridgeVars, helpers, log, storeVars>>

\* A caller awaits sendEmail(message) of the further instance d: sendEmail runs up
\* to its await.  `dropped` holds the cache keys that a clearTemplateCache of d
\* immediately before this send removed.
SendThrough(d, message) ==
    /\ instances[d] # NoInstance
    /\ LET inst == instances[d][1]
           s == SendEmailToAwait(message, inst.templateCache, inst.defaultFrom)
       IN /\ instances' = [instances EXCEPT ![d] = Some([inst EXCEPT !.templateCache = s.cache])]
          /\ last' = [op |-> "sendEmail", by |-> d, message |-> message,
                      promise |-> s.promise, mail |-> s.mail, compile |-> s.compile,
                      reply |-> None,
                      dropped |-> IF last.op = "clearTemplateCache" /\ last.by = d
                                  THEN DOMAIN last.instancesBefore[d][1].templateCache
                                  ELSE {}]
    /\ UNCHANGED <<templateCache, defaultFrom, call, smtp, bridgeVars, helpers, log, storeVars>>

\* The transport answers that send; sendEmail returns its result.
SendSettles(outcome) ==
    /\ last.op = "sendEmail"
    /\ last.promise.state = "pending"
    /\ last' = [last EXCEPT !.promise = SendEmailAfterAwait(outcome),
                            !.reply = Some(outcome)]
    /\ UNCHANGED <<templateCache, defaultFrom, call, smtp, bridgeVars, helpers, instances,
                   log, storeVars>>

\* A template that instance `by` renders calls the helper `name` with args: the
\* function bound to the name in the registry at that moment is applied.
InvokeHelper(by, name, args) ==
    /\ Constructed(by)
    /\ name \in DOMAIN helpers
    /\ Callable(helpers[name])
    /\ last' = [op |-> "helper", by |-> by, name |-> name, args |-> args,
                at |-> Len(log), fn |-> helpers[name],
                result |-> ApplyHelper(helpers[name], args)]
    /\ UNCHANGED <<templateCache, defaultFrom, call, smtp, bridgeVars, helpers, instances,
                   log, storeVars>>

\* Construction, helper registration and rendering over all instances.
NextRegistry ==
    \/ \E d \in InstanceIds, config \in ConstructorConfigs : Construct(d, config)
    \/ \E by \in {0} \cup InstanceIds, registration \in CustomRegistrations :
          RegisterHelper(by, registration)
    \/ \E by \in {0} \cup InstanceIds, batch \in CustomBatches : RegisterHelpers(by, batch)
    \/ \E by \in {0} \cup InstanceIds, name \in {"shout", "truncate"} :
          InvokeHelper(by, name, <<StrHelloWorld, 5>>)

SpecRegistry == Init /\ [][NextRegistry]_vars

\* Construction of a further instance, its sends and its cache.
NextInstance ==
    \/ \E d \in InstanceIds, config \in ConstructorConfigs : Construct(d, config)
    \/ \E d \in InstanceIds : ClearTemplateCacheOf(d)
    \/ \E d \in InstanceIds, message \in LifecycleMessages : SendThrough(d, message)
    \/ \E outcome \in TransportOutcomes(1) : SendSettles(outcome)

SpecInstance == Init /\ [][NextInstance]_vars

\* The built-in helpers divide, modulo, truncate and formatCurrency on every
\* argument of the model.
NextHelpers ==
    \E name \in {"divide", "modulo", "truncate", "formatCurrency"} :
        \E args \in HelperArgs(name) : InvokeHelper(0, name, args)

SpecHelpers == Init /\ [][NextHelpers]_vars

\* An update request arrives: EmailController.update runs to its first await,
\* inside validateSmtpConnection(check.data), or answers at once.
ControllerUpdate(idText, body) ==
    /\ request.pc = "idle"
    /\ smtp.pc # "verifying"
    /\ LET id == JsNumber(idText)
           check == emailUpdateSchema(body)
       IN IF id = None
          THEN /\ request' = [pc |-> "responded", op |-> "update", tableBefore |-> emailTable,
                              outcome |-> Ok(badResponse(<<"Email ID must be a number">>))]
               /\ smtp' = smtp
          ELSE IF ~check.ok
          THEN /\ request' = [pc |-> "responded", op |-> "update", tableBefore |-> emailTable,
                              outcome |-> Ok(badResponse(check.error.message))]
               /\ smtp' = smtp
          ELSE /\ request' = [pc |-> "validating", op |-> "update", id |-> id[1],
                              data |-> check.value, tableBefore |-> emailTable]
               /\ smtp' = [pc |-> "verifying", config |-> check.value,
                           transport |-> ValidationTransport(check.value)]
    /\ UNCHANGED <<templateCache, defaultFrom, call, bridgeVars, lifecycleVars, emailTable,
                   seeding>>

\* validateSmtpConnection has returned or thrown: update resumes after its await,
\* and either ends with the error or calls emailService.update, which runs to its
\* await of the database.
UpdateResumes ==
    /\ request.pc = "validating"
    /\ smtp.pc \in {"returned", "thrown"}
    /\ LET a == AfterValidate(smtp) IN
       request' = IF a.pc = "thrown"
                  THEN [pc |-> "thrown", op |-> "update", id |-> request.id,
                        data |-> request.data, tableBefore |-> request.tableBefore,
                        outcome |-> Throw(a.error)]
                  ELSE [request EXCEPT !.pc = "updating"]
    /\ UNCHANGED <<templateCache, defaultFrom, call, smtp, bridgeVars, lifecycleVars,
                   emailTable, seeding>>

\* The database answers the UPDATE: emailService.update returns or throws, and
\* the controller sends the response.
DbUpdateReply(outcome) ==
    /\ request.pc = "updating"
    /\ LET u == DbUpdateById(emailTable, request.id, request.data)
           answer == IF outcome.ok THEN Ok(u.rows) ELSE outcome
           r == update(answer)
       IN /\ emailTable' = IF outcome.ok THEN u.table ELSE emailTable
          /\ request' = [pc |-> IF r.ok THEN "responded" ELSE "thrown", op |-> "update",
                         id |-> request.id, data |-> request.data,
                         tableBefore |-> request.tableBefore, answer |-> answer,
                         outcome |-> IF r.ok THEN Ok(sendResponse(r.value)) ELSE r]
    /\ UNCHANGED <<templateCache, defaultFrom, call, smtp, bridgeVars, lifecycleVars,
                   seeding>>

\* A show request arrives: EmailController.show runs to the await of findFirst
\* inside retrieveOne, or answers at once.
ControllerShow(idText) ==
    /\ request.pc = "idle"
    /\ LET id == JsNumber(idText) IN
       request' = IF id = None
                  THEN [pc |-> "responded", op |-> "show", tableBefore |-> emailTable,
                        outcome |-> Ok(badResponse(<<"Email ID must be a number">>))]
                  ELSE [pc |-> "finding", op |-> "show", id |-> id[1],
                        tableBefore |-> emailTable]
    /\ UNCHANGED <<templateCache, defaultFrom, call, smtp, bridgeVars, lifecycleVars,
                   emailTable, seeding>>

\* The database answers findFirst: retrieveOne returns or throws, and the
\* controller sends the response.
DbFindReply(outcome) ==
    /\ request.pc = "finding"
    /\ LET answer == IF outcome.ok THEN Ok(DbFindFirstById(emailTable, request.id))
                     ELSE outcome
           r == retrieveOne(answer)
       IN request' = [pc |-> IF r.ok THEN "responded" ELSE "thrown", op |-> "show",
                      id |-> request.id, tableBefore |-> request.tableBefore,
                      answer |-> answer,
                      outcome |-> IF r.ok THEN Ok(sendResponse(r.value)) ELSE r]
    /\ UNCHANGED <<templateCache, defaultFrom, call, smtp, bridgeVars, lifecycleVars,
                   emailTable, seeding>>

\* The request is over: its response was sent, or its error went to the error
\* handler of the application.
ControllerReturns ==
    /\ request.pc \in {"responded", "thrown"}
    /\ request' = NoRequest
    /\ UNCHANGED <<templateCache, defaultFrom, call, smtp, bridgeVars, lifecycleVars,
                   emailTable, seeding>>

\* The process with a seeded email table.
InitController == InitStored(DefaultEnv, SeededTable(DefaultEnv))

\* Requests to EmailController, one at a time.
NextController ==
    \/ \E idText \in IdParams, body \in UpdateBodies : ControllerUpdate(idText, body)
    \/ \E outcome \in VerifyOutcomes : VerifyReply(outcome)
    \/ UpdateResumes
    \/ \E outcome \in DbOutcomes : DbUpdateReply(outcome)
    \/ \E idText \in IdParams : ControllerShow(idText)
    \/ \E outcome \in DbOutcomes : DbFindReply(outcome)
    \/ ControllerReturns

SpecController == InitController /\ [][NextController]_vars

\* EmailSeeder.run() is called when no run is in flight: createEmailConfigurations
\* runs to the SELECT for its first configuration.
SeederRun ==
    /\ seeding.pc \in {"idle", "done", "failed"}
    /\ seeding.runs < MaxRuns
    /\ seeding' = [pc |-> "select", runs |-> seeding.runs + 1,
                   completed |-> seeding.completed, i |-> 1, created |-> 0, skipped |-> 0,
                   tableAtStart |-> emailTable, afterCompleted |-> seeding.completed]
    /\ UNCHANGED <<templateCache, defaultFrom, call, smtp, bridgeVars, lifecycleVars,
                   emailTable, request>>

\* The loop goes to its next configuration, or the run completes.
SeederAdvance(sd) ==
    IF sd.i < Len(SeedConfigNames) THEN [sd EXCEPT !.pc = "select", !.i = @ + 1]
    ELSE [sd EXCEPT !.pc = "done", !.completed = TRUE]

\* The database answers the SELECT for the configuration at hand: it is skipped,
\* or its INSERT is sent; an error ends the run.
SeederSelectReply(outcome) ==
    /\ seeding.pc = "select"
    /\ seeding' =
          IF ~outcome.ok THEN [seeding EXCEPT !.pc = "failed"]
          ELSE IF ConfigExists(DbSelectByName(emailTable, SeedConfigNames[seeding.i]))
          THEN SeederAdvance([seeding EXCEPT !.skipped = @ + 1])
          ELSE [seeding EXCEPT !.pc = "insert"]
    /\ UNCHANGED <<templateCache, defaultFrom, call, smtp, bridgeVars, lifecycleVars,
                   emailTable, request>>

\* The database answers the INSERT: the row is there and counted, or the error
\* ends the run.
SeederInsertReply(outcome) ==
    /\ seeding.pc = "insert"
    /\ LET r == IF outcome.ok
                THEN DbInsert(emailTable, EmailConfigData(env, SeedConfigNames[seeding.i]))
                ELSE outcome
       IN /\ emailTable' = IF r.ok THEN r.value ELSE emailTable
          /\ seeding' = IF r.ok THEN SeederAdvance([seeding EXCEPT !.created = @ + 1])
                        ELSE [seeding EXCEPT !.pc = "failed"]
    /\ UNCHANGED <<templateCache, defaultFrom, call, smtp, bridgeVars, lifecycleVars,
                   request>>

\* Sequential runs of the seeder.
NextSeeder ==
    \/ SeederRun
    \/ \E outcome \in DbOutcomes : SeederSelectReply(outcome)
    \/ \E outcome \in DbOutcomes : SeederInsertReply(outcome)

SpecSeeder == InitBridge /\ [][NextSeeder]_vars

(***************************************************************************)
(* Properties.  What the formulas read of a call:                          *)
(*   call.messages[i]        the i-th message given                        *)
(*   call.sends[i].mail      the mailOptions sendMail was called with      *)
(*   call.sends[i].reply     what the transport answered                   *)
(*   call.sends[i].promise   the promise sendEmail returned for it         *)
(*   call.sends[i].compile   what its compileTemplate call did             *)
(*   call.values, call.outer the values and the state of Promise.all       *)
(***************************************************************************)
Sends == DOMAIN call.sends

\* The data sendEmail renders message m with.
DataOf(m) == IF Has(m, "templateData") THEN m.templateData ELSE EmptyData

\* Message i failed validation / failed in the render step / was rejected by the
\* transport.
ValidationFailed(i) == ~emailMessageSchema(call.messages[i]).ok

RenderFailed(i) ==
    LET s == call.sends[i] IN
    /\ s.compile # None
    /\ \/ ~s.compile[1].result.ok
       \/ ~InvokeTemplate(s.compile[1].result.value, DataOf(call.messages[i])).ok

TransportRejected(i) == call.sends[i].reply # None /\ ~call.sends[i].reply[1].ok

TransportAccepted(i) == call.sends[i].reply # None /\ call.sends[i].reply[1].ok

\* The promise of message i is fulfilled with a failure result carrying an error text.
ReturnedFailure(i) ==
    LET p == call.sends[i].promise IN
    /\ p.state = "fulfilled"
    /\ p.value.success = FALSE
    /\ "error" \in DOMAIN p.value
    /\ p.value.error # <<>>

\* The number of body fields (text, html, templateHtml) message m sets.
BodyFieldsSet(m) == Cardinality({f \in {"text", "html", "templateHtml"} : Has(m, f)})

\* C1: sendEmail never throws: no promise of sendEmail is ever rejected, and a
\* failure of validation, of template rendering or of the transport's send is
\* returned as a result with success = false and an error text.
C1_SendEmailNeverThrows ==
    \A i \in Sends :
        /\ call.sends[i].promise.state # "rejected"
        /\ (ValidationFailed(i) \/ RenderFailed(i) \/ TransportRejected(i))
              => ReturnedFailure(i)

\* A render failure and a transport rejection in one bulk call, both returned as
\* failure results.
C1_Witness ==
    /\ call.kind = "bulk" /\ Len(call.sends) = 2
    /\ ~ValidationFailed(1) /\ RenderFailed(1) /\ ReturnedFailure(1)
    /\ TransportRejected(2) /\ ReturnedFailure(2)

\* C2: every result sendEmail returns is fully and exclusively filled: success
\* with a messageId and no error, or failure with an error and no messageId, for
\* every send info the transport may return.
C2_ResultFullyFilled ==
    \A i \in Sends :
        call.sends[i].promise.state = "fulfilled" =>
            LET r == call.sends[i].promise.value IN
            IF r.success
            THEN "messageId" \in DOMAIN r /\ r.messageId # None /\ "error" \notin DOMAIN r
            ELSE "error" \in DOMAIN r /\ "messageId" \notin DOMAIN r

\* C3: a message that sets none of text, html and templateHtml is rejected by
\* validation, and sendMail is never called for it.
C3_NoBodyNoSend ==
    \A i \in Sends :
        BodyFieldsSet(call.messages[i]) = 0 =>
            /\ call.sends[i].mail = None
            /\ call.sends[i].reply = None
            /\ ReturnedFailure(i)
            /\ ValidationFailed(i)
            /\ call.sends[i].promise.value.error
                  = emailMessageSchema(call.messages[i]).error.message

\* A sendEmail call of a message without a body has returned its failure.
C3_Witness ==
    /\ call.kind = "single"
    /\ BodyFieldsSet(call.messages[1]) = 0
    /\ call.outer = "fulfilled"
    /\ call.sends[1].mail = None

\* C4 as stated: a schema-valid message with exactly one of text, html,
\* templateHtml set is sent with success = true by a transport that rejects
\* nothing.
C4_Original ==
    (call.outer = "fulfilled" /\ \A j \in Sends : ~TransportRejected(j)) =>
        \A i \in Sends :
            (~ValidationFailed(i) /\ BodyFieldsSet(call.messages[i]) = 1)
                => call.sends[i].promise.value.success

\* C4, amended: a schema-valid message with exactly one of text, html,
\* templateHtml set is sent with success = true when the transport accepts the
\* send and, if the field is templateHtml, the render step does not fail; a
\* text-only or html-only message needs only the transport.
C4_ValidSingleBodySucceeds ==
    \A i \in Sends :
        ( /\ ~ValidationFailed(i)
          /\ BodyFieldsSet(call.messages[i]) = 1
          /\ ~RenderFailed(i)
          /\ call.sends[i].promise.state # "pending" )
            => /\ call.sends[i].mail # None
               /\ TransportAccepted(i) =>
                     ( /\ call.sends[i].promise.state = "fulfilled"
                       /\ call.sends[i].promise.value.success )

\* A template-only message was rendered, accepted by the transport and reported
\* as sent.
C4_Witness ==
    \E i \in Sends :
        /\ ~ValidationFailed(i)
        /\ BodyFieldsSet(call.messages[i]) = 1
        /\ Has(call.messages[i], "templateHtml")
        /\ TransportAccepted(i)
        /\ call.sends[i].promise.state = "fulfilled"
        /\ call.sends[i].promise.value.success

\* Result i of a settled bulk call is the outcome of message i: it is the value
\* of the promise sendEmail returned for message i, and carries the message id the
\* transport gave to that message's own send.
IndexAligned ==
    /\ DOMAIN call.values = 1..Len(call.messages)
    /\ \A i \in 1..Len(call.messages) :
          /\ i \in DOMAIN call.values
          /\ call.sends[i].promise.state = "fulfilled"
          /\ call.values[i] = call.sends[i].promise.value
          /\ (TransportAccepted(i) /\ call.sends[i].reply[1].value.messageId # None)
                => /\ "messageId" \in DOMAIN call.values[i]
                   /\ call.values[i].messageId = Some(MessageIdOf(call.sends[i].seq))

\* C5 as stated: sendBulkEmails returns N results, result i being the outcome of
\* message i, and with a transport that accepts every send exactly the invalid
\* messages' positions have success = false.
C5_Original ==
    (call.kind = "bulk" /\ call.outer = "fulfilled") =>
        /\ IndexAligned
        /\ (\A j \in Sends : ~TransportRejected(j)) =>
              \A i \in Sends : (call.values[i].success = FALSE) <=> ValidationFailed(i)

\* C5, amended: sendBulkEmails returns N results, result i being the outcome of
\* message i in whatever order the sends complete, and with a transport that
\* accepts every send exactly the positions of the messages that are invalid or
\* whose template fails to render have success = false.
C5_BulkIndexAligned ==
    (call.kind = "bulk" /\ call.outer = "fulfilled") =>
        /\ IndexAligned
        /\ (\A j \in Sends : ~TransportRejected(j)) =>
              \A i \in Sends :
                 (call.values[i].success = FALSE) <=> (ValidationFailed(i) \/ RenderFailed(i))

\* A bulk call of two messages has returned: the first, invalid, failed and the
\* second was sent.
C5_Witness ==
    /\ call.kind = "bulk" /\ call.outer = "fulfilled" /\ Len(call.messages) = 2
    /\ ValidationFailed(1) /\ call.values[1].success = FALSE
    /\ TransportAccepted(2) /\ call.values[2].success = TRUE

\* C6: in sendBulkEmails no message's failure aborts the others: the call never
\* rejects, sendEmail runs for every message (its send is handed to the transport
\* unless its own validation or rendering failed), and the call completes only
\* when every individual send has finished.
C6_BulkNeverAborts ==
    call.kind = "bulk" =>
        /\ call.outer # "rejected"
        /\ Len(call.sends) = Len(call.messages)
        /\ \A i \in Sends :
              (call.sends[i].mail # None) <=> ~(ValidationFailed(i) \/ RenderFailed(i))
        /\ call.outer = "fulfilled" =>
              \A i \in Sends : call.sends[i].promise.state = "fulfilled"
        /\ (\E i \in Sends : call.sends[i].promise.state = "pending")
              => call.outer = "pending"

\* The first message of a bulk call failed at the transport, the second was sent
\* all the same, and the call returned both results.
C6_Witness ==
    /\ call.kind = "bulk" /\ Len(call.messages) = 2
    /\ TransportRejected(1)
    /\ TransportAccepted(2) /\ call.sends[2].promise.value.success
    /\ call.outer = "fulfilled"

\* C7: compileTemplate with a cache key that is in the cache returns the cached
\* template without compiling and leaves the cache as it was; with a cache key
\* that is not in the cache it compiles the source and stores the result under
\* that key only; with no cache key it compiles and leaves the cache as it was.
C7_CompileTemplateCache ==
    \A i \in Sends :
        call.sends[i].compile # None =>
            LET e == call.sends[i].compile[1] IN
            IF e.cacheKey = None
            THEN /\ e.compiled
                 /\ e.after = e.before
                 /\ e.result = Ok([source |-> e.templateHtml])
            ELSE IF e.cacheKey[1] \in DOMAIN e.before
            THEN /\ ~e.compiled
                 /\ e.after = e.before
                 /\ e.result = Ok(e.before[e.cacheKey[1]])
            ELSE /\ e.compiled
                 /\ e.result = Ok([source |-> e.templateHtml])
                 /\ DOMAIN e.after = DOMAIN e.before \cup {e.cacheKey[1]}
                 /\ e.after[e.cacheKey[1]] = e.result.value
                 /\ \A k \in DOMAIN e.before : e.after[k] = e.before[k]

\* In one bulk call the first send compiled a template and stored it, and the
\* second found that key in the cache.
C7_Witness ==
    /\ call.kind = "bulk" /\ Len(call.sends) = 2
    /\ call.sends[1].compile # None /\ call.sends[2].compile # None
    /\ call.sends[1].compile[1].cacheKey # None
    /\ call.sends[1].compile[1].compiled
    /\ call.sends[2].compile[1].cacheKey = call.sends[1].compile[1].cacheKey
    /\ ~call.sends[2].compile[1].compiled

Contains(msg, text) == \E i \in DOMAIN msg : msg[i] = text

BridgeDone == bridge.pc \in {"returned", "thrown"}

\* The error the call threw.
BridgeError == bridge.outcome[1].error

\* The template store answered that it holds no row of that name / a row whose
\* body is empty.
TemplateAbsent ==
    /\ bridge.kind = "template" /\ bridge.templateLookup # None
    /\ bridge.templateLookup[1].ok /\ bridge.templateLookup[1].value.data = None

TemplateBlank ==
    /\ bridge.kind = "template" /\ bridge.templateLookup # None
    /\ bridge.templateLookup[1].ok /\ bridge.templateLookup[1].value.data # None
    /\ bridge.templateLookup[1].value.data[1].html = <<>>

\* The configuration store answered that it holds no row of that name.
ConfigAbsent ==
    /\ bridge.kind = "template" /\ bridge.configLookup # None
    /\ bridge.configLookup[1].ok /\ bridge.configLookup[1].value.data = None

\* The error names the template and the recipient of the call.
NamesTemplateAndRecipient(e) ==
    Contains(e.message, bridge.args.templateName) /\ Contains(e.message, bridge.args.to)

IsTemplateNotFound(e) ==
    e.message = <<"Failed to send email with template '", bridge.args.templateName,
                  "' to '", bridge.args.to, "': ",
                  "Email template '", bridge.args.templateName, "' not found or has no data">>

IsConfigNotFound(e) ==
    e.message = <<"Failed to send email with template '", bridge.args.templateName,
                  "' to '", bridge.args.to, "': ",
                  "Email service configuration '", bridge.args.emailConfigName,
                  "' not found or has no data">>

\* C11 as stated: sendEmailWithTemplate with a templateName that the store does
\* not hold, or whose stored body is empty, raises a template-not-found error
\* naming the template and the recipient, without attempting any send.
C11_Original ==
    (BridgeDone /\ (TemplateAbsent \/ TemplateBlank)) =>
        /\ bridge.pc = "thrown"
        /\ IsTemplateNotFound(BridgeError)
        /\ NamesTemplateAndRecipient(BridgeError)
        /\ bridge.send = None

\* C11, amended: sendEmailWithTemplate with a templateName that the store does
\* not hold raises a template-not-found error whose message contains the template
\* name and the recipient address, without looking up the configuration,
\* constructing a Dispatcher or attempting a send.  A stored template whose body
\* is empty is not reported as not found: the call goes on, and ends by raising
\* another error that names the template and the recipient, with nothing handed
\* to the transport.
C11_TemplateNotFound ==
    /\ TemplateAbsent =>
          /\ bridge.pc = "thrown"
          /\ IsTemplateNotFound(BridgeError)
          /\ NamesTemplateAndRecipient(BridgeError)
          /\ bridge.configLookup = None
          /\ bridge.service = None
          /\ bridge.send = None
    /\ (TemplateBlank /\ BridgeDone) =>
          /\ bridge.pc = "thrown"
          /\ ~IsTemplateNotFound(BridgeError)
          /\ NamesTemplateAndRecipient(BridgeError)
          /\ bridge.send # None => bridge.send[1].mail = None

\* The call for the template "missing" has thrown.
C11_Witness ==
    /\ TemplateAbsent
    /\ bridge.args.templateName = "missing"
    /\ bridge.pc = "thrown"
    /\ IsTemplateNotFound(BridgeError)

\* C12: when the configuration store holds no row of the configName,
\* sendEmailWithTemplate raises a config-not-found error, constructs no Dispatcher
\* and attempts no send; the configuration is looked up only after the template
\* lookup has answered with a template.
C12_ConfigNotFound ==
    /\ ConfigAbsent =>
          /\ bridge.pc = "thrown"
          /\ bridge.service = None
          /\ bridge.send = None
          /\ IsConfigNotFound(BridgeError)
    /\ (bridge.pc = "config" \/ bridge.configLookup # None) =>
          /\ bridge.templateLookup # None
          /\ bridge.templateLookup[1].ok
          /\ bridge.templateLookup[1].value.data # None

\* The call for the configuration "absent" has thrown, after its template was found.
C12_Witness ==
    /\ ConfigAbsent
    /\ bridge.args.emailConfigName = "absent"
    /\ bridge.templateLookup[1].value.data # None
    /\ bridge.pc = "thrown"

\* C13: the Dispatcher sendEmailWithTemplate sends through is constructed from
\* the configuration row resolved by configName: the host, port, secure flag and
\* credentials of its transport are those of the row.
C13_DispatcherFromResolvedConfig ==
    ( /\ bridge.kind = "template"
      /\ bridge.service # None
      /\ bridge.service[1].created # None ) =>
        LET row == bridge.configLookup[1].value.data[1]
            transport == bridge.service[1].created[1]
        IN /\ transport.host = row.host
           /\ transport.port = row.port
           /\ transport.secure = row.secure
           /\ transport.auth = [user |-> row.username, pass |-> row.password]

\* The result sendEmail returned to the call.
BridgeSendResult == bridge.send[1].promise.value

BridgeSendReturned == bridge.send # None /\ bridge.send[1].promise.state = "fulfilled"

\* C14: sendEmailWithTemplate and sendEmailWithDirectTemplate return normally
\* only if sendEmail returned success = true, and raise whenever it returned
\* success = false (a validation, render or transport failure), with the error
\* text of that result.
C14_RaisesOnFailure ==
    /\ bridge.pc = "returned" => (BridgeSendReturned /\ BridgeSendResult.success)
    /\ (BridgeSendReturned /\ ~BridgeSendResult.success) =>
          /\ bridge.pc = "thrown"
          /\ \A i \in DOMAIN BridgeSendResult.error :
                Contains(BridgeError.message, BridgeSendResult.error[i])

\* A sendEmailWithDirectTemplate call has thrown because the transport rejected
\* the send.
C14_Witness ==
    /\ bridge.kind = "direct"
    /\ bridge.pc = "thrown"
    /\ bridge.send # None
    /\ bridge.send[1].reply # None
    /\ ~bridge.send[1].reply[1].ok
    /\ ~BridgeSendResult.success

(***************************************************************************)
(* Properties of construction, the helper registry, the cache and the      *)
(* from header.  `last` is the most recent operation: its inputs, what it  *)
(* returned, and the registry and instances it started from.               *)
(***************************************************************************)
\* The configuration violates the schema: an empty host, a port outside
\* 1..65535, an auth user that is not an e-mail address, or an empty password.
SchemaViolating(config) ==
    \/ config.host = ""
    \/ config.port.n \notin 1..65535
    \/ config.auth.user \notin WellFormedEmails
    \/ config.auth.pass = ""

\* C15: constructing an EmailSMTPService from a configuration that violates the
\* schema fails before any transport object is created and before any helper is
\* registered: the registry and the instances stay as they were.
C15_InvalidConfigFailsFirst ==
    (last.op = "construct" /\ SchemaViolating(last.config)) =>
        /\ last.created = None
        /\ helpers = last.helpersBefore
        /\ instances = last.instancesBefore
        /\ ~last.result.ok
        /\ last.result.error.kind = "ZodError"

\* A construction with port 65536 failed while a custom helper was bound to the
\* built-in name truncate, and the custom helper is still bound.
C15_Witness ==
    /\ last.op = "construct"
    /\ last.config.port = Num(65536)
    /\ ~last.result.ok
    /\ helpers["truncate"] = Custom(1)

\* The function the registrations log[1..i] leave bound to name, on top of the
\* registry of the process at its start (Handlebars' own helpers and the built-in
\* helpers of the first Dispatcher).
RECURSIVE LatestBinding(_, _)
LatestBinding(name, i) ==
    IF i = 0
    THEN IF name \in BuiltinHelperNames THEN Some(Builtin(name))
         ELSE IF name \in HandlebarsOwnHelperNames THEN Some(Own(name))
         ELSE None
    ELSE IF name \in DOMAIN log[i] THEN Some(log[i][name])
    ELSE LatestBinding(name, i - 1)

\* C16: helper registration is last-writer-wins by name in one process-wide
\* registry: after any sequence of registrations through any instances, the
\* function bound to a name is the one of the most recent registration of that
\* name, and a template rendered afterwards by any instance calls that function.
C16_LastRegistrationWins ==
    /\ \A name \in BuiltinHelperNames \cup HandlebarsOwnHelperNames \cup {"shout"} :
          Opt(helpers, name) = LatestBinding(name, Len(log))
    /\ last.op = "helper" =>
          /\ Some(last.fn) = LatestBinding(last.name, last.at)
          /\ last.result = ApplyHelper(LatestBinding(last.name, last.at)[1], last.args)

\* "shout" was registered twice with different functions, and a template rendered
\* afterwards by the further instance called the second one.
C16_Witness ==
    /\ last.op = "helper" /\ last.by = 1 /\ last.name = "shout"
    /\ last.at = Len(log)
    /\ \E i, j \in DOMAIN log :
          /\ i < j
          /\ "shout" \in DOMAIN log[i] /\ "shout" \in DOMAIN log[j]
          /\ log[i]["shout"] # log[j]["shout"]
          /\ \A k \in (j + 1)..Len(log) : "shout" \notin DOMAIN log[k]
          /\ last.fn = log[j]["shout"]

\* C17: clearTemplateCache removes every cached template of that instance and
\* leaves the helper registry, the transport and the default sender as they
\* were; the next send of a template that was cached compiles it again.
C17_ClearTemplateCache ==
    /\ last.op = "clearTemplateCache" =>
          LET before == last.instancesBefore[last.by][1]
              now == instances[last.by][1]
          IN /\ DOMAIN now.templateCache = {}
             /\ now.transporter = before.transporter
             /\ now.defaultFrom = before.defaultFrom
             /\ helpers = last.helpersBefore
    /\ ( /\ last.op = "sendEmail"
         /\ last.compile # None
         /\ last.compile[1].cacheKey # None
         /\ last.compile[1].cacheKey[1] \in last.dropped ) =>
          /\ last.compile[1].cacheKey[1] \notin DOMAIN last.compile[1].before
          /\ last.compile[1].compiled

\* A template whose key clearTemplateCache had just removed was sent again, and
\* compiled again.
C17_Witness ==
    /\ last.op = "sendEmail"
    /\ last.compile # None
    /\ last.compile[1].cacheKey # None
    /\ last.compile[1].cacheKey[1] \in last.dropped
    /\ last.compile[1].compiled

\* C18: the from header of a sent message is "Name <email>" when a display name
\* is given, with email = message.from if present, else the default sender of
\* the instance (the auth user it was configured with); without a display name
\* it is the default sender, even if message.from was supplied.
C18_FromHeader ==
    (last.op = "sendEmail" /\ last.mail # None) =>
        LET m == last.message
            sender == instances[last.by][1].transporter.auth.user
            from == last.mail[1].from
        IN IF Has(m, "name") /\ m.name # ""
           THEN from = <<m.name, " <", IF Has(m, "from") THEN m.from ELSE sender, ">">>
           ELSE from = <<sender>>

\* A message with a sender and no display name went out from the auth user of the
\* instance's configuration.
C18_Witness ==
    /\ last.op = "sendEmail" /\ last.mail # None
    /\ Has(last.message, "from") /\ ~Has(last.message, "name")
    /\ last.message.from = "bob@x.io"
    /\ instances[last.by][1].transporter.auth.user = "ann@x.io"
    /\ last.mail[1].from = <<"ann@x.io">>

(***************************************************************************)
(* Properties of the built-in helpers.                                     *)
(***************************************************************************)
\* v is the number a / b (b # 0).
IsQuotient(v, a, b) ==
    \/ v.t = "number" /\ v.n * b = a
    \/ v.t = "fraction" /\ v.q > 1 /\ v.p * b = a * v.q /\ Gcd(Abs(v.p), v.q) = 1

\* v is the number a % b (b # 0): a = q * b + v for an integer q, |v| < |b|, and
\* v has the sign of a.
IsRemainder(v, a, b) ==
    /\ v.t = "number"
    /\ Abs(v.n) < Abs(b)
    /\ v.n = 0 \/ Sign(v.n) = Sign(a)
    /\ \E q \in -Abs(a)..Abs(a) : a = q * b + v.n

\* C19: divide and modulo return 0 whenever the divisor is 0, for every dividend,
\* and never raise; for a divisor that is not 0 they return a / b and a % b.
C19_DivideModuloByZero ==
    (last.op = "helper" /\ last.fn \in {Builtin("divide"), Builtin("modulo")}) =>
        LET a == last.args[1]
            b == last.args[2]
            r == last.result
        IN /\ r.ok
           /\ b = 0 => (r.value.t = "number" /\ r.value.n = 0)
           /\ (b # 0 /\ last.fn.id = "divide") => IsQuotient(r.value, a, b)
           /\ (b # 0 /\ last.fn.id = "modulo") => IsRemainder(r.value, a, b)

\* divide was called with 3 and 0 and returned 0.
C19_Witness ==
    /\ last.op = "helper" /\ last.fn = Builtin("divide")
    /\ last.args = <<3, 0>>
    /\ last.result = Ok(Num(0))

\* C20: truncate returns its string unchanged when the string's length is at
\* most n, and otherwise the first n characters followed by "..."; the ellipsis
\* is appended only when characters were removed.
C20_Truncate ==
    (last.op = "helper" /\ last.fn = Builtin("truncate")) =>
        LET s == last.args[1]
            n == last.args[2]
            r == last.result
        IN /\ r.ok
           /\ Len(s) <= n => r.value = s
           /\ (Len(s) > n /\ n >= 0) => r.value = SubSeq(s, 1, n) \o <<46, 46, 46>>
           /\ r.value # s =>
                 /\ Len(r.value) >= 3
                 /\ SubSeq(r.value, Len(r.value) - 2, Len(r.value)) = <<46, 46, 46>>
                 /\ Len(r.value) - 3 < Len(s)
                 /\ SubSeq(r.value, 1, Len(r.value) - 3) = SubSeq(s, 1, Len(r.value) - 3)

\* truncate was called with "hello world" and 5 and returned "hello...".
C20_Witness ==
    /\ last.op = "helper" /\ last.fn = Builtin("truncate")
    /\ last.args = <<StrHelloWorld, 5>>
    /\ last.result = Ok(<<104, 101, 108, 108, 111, 46, 46, 46>>)

\* C21: a template that calls formatCurrency with the amount alone gets the
\* amount formatted as USD, and with a currency written after the amount gets it
\* formatted in that currency.
C21_FormatCurrencyDefaultUSD ==
    (last.op = "helper" /\ last.fn = Builtin("formatCurrency")) =>
        LET amount == last.args[1]
            code == IF Len(last.args) = 1 THEN USD ELSE last.args[2].s
            r == last.result
        IN /\ r.ok
           /\ r.value.t = "text"
           /\ r.value.s = IntlFormatCurrency(amount, code)

(***************************************************************************)
(* Properties of template rendering in sendEmail.                          *)
(***************************************************************************)
\* C22: the html handed to the transport for a message with templateHtml is the
\* rendering of that message's own templateHtml with its own templateData,
\* whatever earlier sends left in the template cache.
C22_OwnTemplateRendered ==
    \A i \in Sends :
        LET m == call.messages[i]
            s == call.sends[i]
        IN (Has(m, "templateHtml") /\ s.mail # None) =>
              LET own == HandlebarsRun(m.templateHtml, DataOf(m)) IN
              /\ own.ok
              /\ s.mail[1].html = Some(own.value)

\* C23: sendEmail derives a cache key exactly when the message has templateData,
\* and the key is a function of templateHtml alone (DeriveCacheKey).  A send with
\* templateHtml and no templateData compiles its source and leaves the cache as
\* it was; a send with templateData leaves its key in the cache, and in one call
\* a later send of the same templateHtml with templateData does not compile.
C23_CacheKeyOnlyWithData ==
    \A i \in Sends :
        LET m == call.messages[i]
            s == call.sends[i]
        IN s.compile # None =>
              LET e == s.compile[1] IN
              /\ e.cacheKey # None <=> Has(m, "templateData")
              /\ e.cacheKey # None => e.cacheKey[1] = DeriveCacheKey(m.templateHtml)
              /\ ~Has(m, "templateData") =>
                    /\ e.compiled
                    /\ e.after = e.before
                    /\ e.result = Ok([source |-> m.templateHtml])
              /\ Has(m, "templateData") =>
                    /\ e.cacheKey[1] \in DOMAIN e.after
                    /\ \A j \in Sends :
                          (/\ j > i
                           /\ Has(call.messages[j], "templateData")
                           /\ Has(call.messages[j], "templateHtml")
                           /\ call.messages[j].templateHtml = m.templateHtml)
                          => /\ call.sends[j].compile # None
                             /\ call.sends[j].compile[1].cacheKey = e.cacheKey
                             /\ ~call.sends[j].compile[1].compiled

\* One bulk call sent a template without templateData, which left the cache
\* empty, and then the same template with templateData, which had to compile it.
C23_Witness ==
    /\ call.kind = "bulk" /\ Len(call.sends) = 2
    /\ call.messages[1] = With(BaseMsg, "templateHtml", TplShort)
    /\ call.messages[2] = With(With(BaseMsg, "templateHtml", TplShort), "templateData", DataAl)
    /\ call.sends[1].compile[1].cacheKey = None
    /\ call.sends[1].compile[1].after = EmptyCache
    /\ call.sends[2].compile[1].cacheKey = Some(DeriveCacheKey(TplShort))
    /\ call.sends[2].compile[1].compiled
    /\ DOMAIN call.sends[2].compile[1].after = {DeriveCacheKey(TplShort)}

\* The compile events of the sends 1..n of the call in flight, in array order.
RECURSIVE CompileEvents(_)
CompileEvents(n) ==
    IF n = 0 THEN <<>>
    ELSE CompileEvents(n - 1) \o
         (IF call.sends[n].compile # None THEN <<call.sends[n].compile[1]>> ELSE <<>>)

\* C24: while the sends of one sendBulkEmails call are in flight, in whatever
\* order the transport answers them, the template cache is well-formed: every key
\* maps to a complete template compiled from a source that has this key; a send
\* that found its key present got exactly the entry stored under it; each send
\* saw the cache the send before it left, and the cache is what the last of them
\* left, whatever has been answered since.
C24_BulkCacheWellFormed ==
    /\ \A k \in DOMAIN templateCache :
          /\ HandlebarsCompile(templateCache[k].source) = Ok(templateCache[k])
          /\ DeriveCacheKey(templateCache[k].source) = k
    /\ call.kind = "bulk" =>
          LET es == CompileEvents(Len(call.sends)) IN
          /\ \A n \in DOMAIN es :
                /\ (es[n].cacheKey # None /\ es[n].cacheKey[1] \in DOMAIN es[n].before) =>
                      /\ es[n].result = Ok(es[n].before[es[n].cacheKey[1]])
                      /\ es[n].after = es[n].before
                /\ n > 1 => es[n].before = es[n - 1].after
                /\ \A k \in DOMAIN es[n].before :
                      k \in DOMAIN es[n].after /\ es[n].after[k] = es[n].before[k]
          /\ es # <<>> => templateCache = es[Len(es)].after

\* A bulk call of two templates with different keys: both are in the cache, and
\* the transport has answered the second send before the first.
C24_Witness ==
    /\ call.kind = "bulk" /\ Len(call.sends) = 2
    /\ call.sends[1].compile # None /\ call.sends[2].compile # None
    /\ call.sends[1].compile[1].cacheKey = Some(DeriveCacheKey(TplShort))
    /\ call.sends[2].compile[1].cacheKey = Some(DeriveCacheKey(TplLongA))
    /\ call.sends[1].reply = None /\ call.sends[2].reply # None
    /\ DOMAIN templateCache = {DeriveCacheKey(TplShort), DeriveCacheKey(TplLongA)}

(***************************************************************************)
(* Properties of the mail sendEmail hands to the transport.                *)
(***************************************************************************)
\* text, to, subject, cc, bcc and attachments of the mail are those of message m.
PassedThrough(m, mail) ==
    /\ mail.to = m.to
    /\ mail.subject = m.subject
    /\ mail.text = Opt(m, "text")
    /\ mail.cc = Opt(m, "cc")
    /\ mail.bcc = Opt(m, "bcc")
    /\ mail.attachments = Opt(m, "attachments")

\* The html of the mail is what the send's template returned for the message's data.
HtmlIsRendered(m, mail) ==
    /\ last.compile # None
    /\ last.compile[1].result.ok
    /\ mail.html = Some(InvokeTemplate(last.compile[1].result.value, DataOf(m)).value)

\* C25 as stated: the html handed to the transport is message.html when the
\* message has no templateHtml field and the rendered template whenever it has
\* one; the other fields pass through unchanged.
C25_Original ==
    (last.op = "sendEmail" /\ last.mail # None) =>
        LET m == last.message
            mail == last.mail[1]
        IN /\ ~Has(m, "templateHtml") => mail.html = Opt(m, "html")
           /\ Has(m, "templateHtml") => HtmlIsRendered(m, mail)
           /\ PassedThrough(m, mail)

\* C25: the html handed to the transport is message.html unchanged when
\* templateHtml is absent or the empty string, and the rendered template when
\* templateHtml is a non-empty string, replacing any html of the message; text,
\* to, subject, cc, bcc and attachments pass through unchanged.
C25_HtmlAndPassThrough ==
    (last.op = "sendEmail" /\ last.mail # None) =>
        LET m == last.message
            mail == last.mail[1]
        IN /\ ~Truthy(m, "templateHtml") => (mail.html = Opt(m, "html") /\ last.compile = None)
           /\ Truthy(m, "templateHtml") => HtmlIsRendered(m, mail)
           /\ PassedThrough(m, mail)

\* The message with every field was sent: the mail carries "Hi Al!" as html, not
\* the html of the message, and the message's text, copies and attachment.
C25_Witness ==
    /\ last.op = "sendEmail" /\ last.message = FullMsg
    /\ last.mail # None
    /\ last.mail[1].html = Some(<<72, 105, 32, 65, 108, 33>>)
    /\ last.mail[1].html # Some(FullMsg.html)
    /\ last.mail[1].text = Some(TextHi)
    /\ last.mail[1].cc = Some(FullMsg.cc)
    /\ last.mail[1].bcc = Some(FullMsg.bcc)
    /\ last.mail[1].attachments = Some(FullMsg.attachments)

(***************************************************************************)
(* Properties of construction and the helper registry.                     *)
(***************************************************************************)
\* C26: constructing a further EmailSMTPService leaves every name that is bound
\* in the helper registry bound to the function it was bound to.
C26_ConstructionKeepsHelpers ==
    last.op = "construct" =>
        \A name \in DOMAIN last.helpersBefore : helpers[name] = last.helpersBefore[name]

\* C28: the configuration createEmailService builds from the environment has
\* secure = true exactly when SMTP_PORT is 465: the transport of every Dispatcher
\* it creates is secure for port 465 and not secure for any other port.
C28_SecureExactlyOn465 ==
    (bridge.service # None /\ bridge.service[1].created # None) =>
        LET transport == bridge.service[1].created[1] IN
        /\ transport.port = Num(CoerceNumber(env.SMTP_PORT))
        /\ transport.secure = (CoerceNumber(env.SMTP_PORT) = PortSecureEnv)

(***************************************************************************)
(* Properties of EmailController, EmailService and EmailSeeder.            *)
(***************************************************************************)
\* The row with the given id holds the data of the update request, and every
\* other row is as it was before the request.
RowWritten(id, data, before) ==
    /\ DOMAIN emailTable = DOMAIN before
    /\ \A i \in DOMAIN before :
          IF before[i].id = id
          THEN /\ \A f \in DOMAIN data : emailTable[i][f] = data[f]
               /\ emailTable[i].id = before[i].id
               /\ emailTable[i].emailConfigName = before[i].emailConfigName
          ELSE emailTable[i] = before[i]

\* C27: EmailController.update sends its UPDATE to the database only after
\* validateSmtpConnection has returned for the very configuration of the
\* request; the table changes only through such an UPDATE; and when the
\* validation failed, update ends with the error, no UPDATE is sent and the
\* table is as it was before the request.
C27_UpdateOnlyAfterValidation ==
    request.op = "update" =>
        /\ (request.pc = "updating" \/ "answer" \in DOMAIN request) =>
              /\ smtp.pc = "returned"
              /\ smtp.config = request.data
              /\ smtp.verify = Ok(TRUE)
        /\ emailTable # request.tableBefore =>
              /\ "answer" \in DOMAIN request
              /\ request.answer.ok
              /\ RowWritten(request.id, request.data, request.tableBefore)
        /\ (request.pc \in {"validating", "thrown"} /\ smtp.pc = "thrown"
            /\ "data" \in DOMAIN request /\ smtp.config = request.data) =>
              /\ emailTable = request.tableBefore
              /\ "answer" \notin DOMAIN request
              /\ request.pc = "thrown" => request.outcome = Throw(smtp.error)

\* An update of row 1 whose validation failed on the login: the request ended
\* with the HttpError of the validation and the table is the seeded one.
C27_Witness ==
    /\ request.op = "update" /\ request.pc = "thrown"
    /\ request.id = 1 /\ request.data = BodyMail
    /\ smtp.pc = "thrown"
    /\ smtp.verify = Throw(Error(<<"Invalid login: 535 Authentication failed">>))
    /\ request.outcome = Throw(smtp.error)
    /\ "answer" \notin DOMAIN request
    /\ emailTable = SeededTable(DefaultEnv)

\* C29: when retrieveOne or update finds no row, the request ends with an
\* HttpError of status 404 and message "Email not found"; when the database
\* throws something that is neither an HttpError nor of the ApiError shape, it
\* ends with an HttpError of status 500 and message "Internal Server Error"
\* that carries the thrown value as its cause; and whatever the database
\* throws, the service method does not return normally.
C29_ErrorNormalisation ==
    "answer" \in DOMAIN request =>
        /\ request.answer = Ok(<<>>) =>
              /\ request.pc = "thrown"
              /\ request.outcome =
                    Throw(HttpError(StatusNotFound, <<"Email not found">>, TRUE, None))
        /\ (~request.answer.ok /\ ~InstanceOfHttpError(request.answer.error)
            /\ ~IsApiErrorShape(request.answer.error)) =>
              /\ request.pc = "thrown"
              /\ request.outcome =
                    Throw(HttpError(StatusInternalServerError,
                                    <<"Internal Server Error">>, FALSE,
                                    Some(request.answer.error)))
        /\ ~request.answer.ok =>
              /\ request.pc = "thrown"
              /\ ~request.outcome.ok
              /\ InstanceOfHttpError(request.outcome.error)

\* A show request for id 9, which no row has, ended with the 404.
C29_Witness ==
    /\ request.op = "show" /\ request.pc = "thrown" /\ request.id = 9
    /\ "answer" \in DOMAIN request /\ request.answer = Ok(<<>>)
    /\ request.outcome.error.status = StatusNotFound
    /\ request.outcome.error.message = <<"Email not found">>

\* The number of rows of the table that carry the name.
RowsNamed(table, name) == Cardinality({i \in DOMAIN table : table[i].emailConfigName = name})

\* C30: once a run of EmailSeeder.run has completed, the email table holds
\* exactly one row for each of default_smtp, notifications and support, and
\* every later run creates no row, sends no INSERT, leaves the table as it
\* found it and, when it completes, has skipped all three; no run ever gives a
\* name a second row or changes a row that was there when it started.
C30_SeedingIdempotent ==
    /\ \A n \in DOMAIN SeedConfigNames : RowsNamed(emailTable, SeedConfigNames[n]) <= 1
    /\ seeding.completed =>
          /\ Len(emailTable) = Len(SeedConfigNames)
          /\ \A n \in DOMAIN SeedConfigNames :
                RowsNamed(emailTable, SeedConfigNames[n]) = 1
    /\ seeding.pc # "idle" =>
          /\ Len(seeding.tableAtStart) <= Len(emailTable)
          /\ \A i \in DOMAIN seeding.tableAtStart : emailTable[i] = seeding.tableAtStart[i]
          /\ Len(emailTable) = Len(seeding.tableAtStart) + seeding.created
          /\ seeding.pc = "done" =>
                seeding.created + seeding.skipped = Len(SeedConfigNames)
    /\ (seeding.pc # "idle" /\ seeding.afterCompleted) =>
          /\ seeding.created = 0
          /\ seeding.pc # "insert"
          /\ emailTable = seeding.tableAtStart
          /\ seeding.pc = "done" => seeding.skipped = Len(SeedConfigNames)

\* The second run after a completed first one is done: nothing created, three
\* skipped, and the three rows of the first run are all there is.
C30_Witness ==
    /\ seeding.pc = "done" /\ seeding.runs = 2 /\ seeding.afterCompleted
    /\ seeding.created = 0 /\ seeding.skipped = 3
    /\ emailTable = SeededTable(env)
    /\ emailTable = seeding.tableAtStart

====
